---- MODULE Spec2Model ----
(***************************************************************************)
(* Argument-component extraction and paragraph analysis of the             *)
(* Analizador-Argumentos backend (app/services/argument_service.py,        *)
(* app/services/paragraph_service.py), and the endpoints of                *)
(* app/api/routers/arguments.py, app/api/routers/conversations.py and      *)
(* app/api/routers/users.py.                                               *)
(*                                                                         *)
(* Strings are sequences of one-character strings; character offsets are   *)
(* 0-based and end-exclusive as in Python, so the character at offset i of *)
(* a string s is s[i + 1].                                                 *)
(***************************************************************************)
EXTENDS Integers, Sequences, FiniteSets, TLC

VARIABLES
  text,           \* the text of the request
  crf_model,      \* ArgumentAnalysisService.crf_model: "None" or "loaded"
  nlp_stanza,     \* ArgumentAnalysisService.nlp_stanza: "None" or "loaded"
  doc,            \* the document the tokenizer returned for the text
  labels,         \* the labels the tagger returned
  premises,       \* the premises extract_components returned
  conclusions,    \* the conclusions extract_components returned
  raised,         \* the exception extract_components raised, "None" for none
  paragraphs,     \* the list analyze_paragraphs returned
  db_components,  \* the rows of the argument_components table
  conversations,  \* the rows of the conversations table, each with its analyses
  score_args,     \* the arguments of a direct call of the scoring functions
  score_result,   \* what calculate_paragraph_strength and generate_recommendation returned
  pc,             \* "start", "extracted", "analyzed"; "given", "score", "scored"
  model_loads,    \* what the calls of initialize_models have done so far
  router,         \* crf_model and nlp_stanza of app/api/routers/arguments.py
  simple,         \* the lists the simple extraction loop returned
  inline,         \* the lists the extraction inside /complete-analysis built
  users,          \* the rows of the users table: username and is_active
  session_tokens, \* the rows of the session_tokens table
  now,            \* datetime.utcnow(), in days
  http,           \* the last request to the users router and its status code
  generated,      \* the tokens generate_token has returned
  logged_out      \* token and user of the session rows a successful logout deleted

routerVars == <<router, simple, inline>>

sessionVars == <<users, session_tokens, now, http, generated, logged_out>>

dbVars == <<db_components, conversations>>

vars == <<text, crf_model, nlp_stanza, doc, labels, premises, conclusions,
          raised, paragraphs, db_components, conversations, score_args,
          score_result, pc, model_loads, router, simple, inline,
          users, session_tokens, now, http, generated, logged_out>>

\* ------------------------------------------------------------------ bounds
\* Longest input text (characters) of the extraction specification.
MaxTextLen == 3

\* Largest number of sentences the tokenizer groups the tokens into.
MaxSentences == 2

\* ------------------------------------------------------------- Python str
\* Python's None (an offset that was not supplied).  Every real offset is >= 0.
None == -1

Min(S) == CHOOSE x \in S : \A y \in S : x <= y

Max(S) == CHOOSE x \in S : \A y \in S : x >= y

\* str.isspace() for the characters of the model's alphabet.
IsSpace(c) == c \in {" ", "\n"}

\* s[i:j] with 0 <= i <= j <= len(s).
Slice(s, i, j) == [k \in 1..(j - i) |-> s[i + k]]

\* s.find(sub, start): lowest offset >= start where sub occurs, else -1.
Find(s, sub, start) ==
  LET hits == {i \in start..(Len(s) - Len(sub)) :
                 \A k \in 1..Len(sub) : s[i + k] = sub[k]}
  IN  IF hits = {} THEN -1 ELSE Min(hits)

\* sep.join(parts[lo..hi]) and sep.join(parts) for a list of strings.  (The
\* recursion halves the range, which keeps evaluation shallow; the result
\* is the left-to-right concatenation.)
RECURSIVE JoinRange(_, _, _, _)
JoinRange(parts, sep, lo, hi) ==
  IF lo > hi THEN <<>>
  ELSE IF lo = hi THEN parts[lo]
  ELSE LET mid == (lo + hi) \div 2
       IN  JoinRange(parts, sep, lo, mid) \o sep \o JoinRange(parts, sep, mid + 1, hi)

Join(parts, sep) == JoinRange(parts, sep, 1, Len(parts))

\* ------------------------------------------------- the tag source (Stanza)
\* The tokenizer is an external collaborator: nlp_stanza(text) returns
\* sentences, each with tokens (text, start_char, end_char) and words.  Its
\* outputs are drawn from the documents below: tokens are the maximal runs of
\* letters and the single punctuation marks of the text, with their true
\* offsets; sentences are contiguous groups of tokens; a token is one word
\* or, as a multi-word token, expands into two words.
IsPunct(c) == c = ","

TokenStartsAt(t, i) ==
  /\ ~IsSpace(t[i])
  /\ \/ i = 1
     \/ IsSpace(t[i - 1])
     \/ IsPunct(t[i])
     \/ IsPunct(t[i - 1])

TokenEndOf(t, i) ==
  Min({j \in i..Len(t) : j = Len(t) \/ IsSpace(t[j + 1]) \/ TokenStartsAt(t, j + 1)})

\* The elements of a finite set of integers in increasing order.
SortedSeq(S) ==
  [k \in 1..Cardinality(S) |-> CHOOSE x \in S : Cardinality({y \in S : y < x}) = k - 1]

StanzaTokens(t) ==
  LET starts == SortedSeq({i \in 1..Len(t) : TokenStartsAt(t, i)})
  IN  [k \in 1..Len(starts) |->
         [text       |-> Slice(t, starts[k] - 1, TokenEndOf(t, starts[k])),
          start_char |-> starts[k] - 1,
          end_char   |-> TokenEndOf(t, starts[k])]]

\* The words of one token: the token itself, or the two words of a
\* multi-word token (a plain split such as "damelo" -> "da", "melo", or a
\* contraction whose second word is not a substring, such as "al" -> "a", "el").
Expansions(tok) ==
  {<<tok.text>>} \cup
  (IF Len(tok.text) >= 2
     THEN {<<Slice(tok.text, 0, 1), Slice(tok.text, 1, Len(tok.text))>>,
           <<Slice(tok.text, 0, 1), <<"e">> \o Slice(tok.text, 1, Len(tok.text))>>}
     ELSE {})

\* The concatenation of a list of lists, in order.
RECURSIVE FlattenRange(_, _, _)
FlattenRange(ss, lo, hi) ==
  IF lo > hi THEN <<>>
  ELSE IF lo = hi THEN ss[lo]
  ELSE LET mid == (lo + hi) \div 2
       IN  FlattenRange(ss, lo, mid) \o FlattenRange(ss, mid + 1, hi)

Flatten(ss) == FlattenRange(ss, 1, Len(ss))

\* The documents nlp_stanza(t) may return.
Docs(t) ==
  LET toks == StanzaTokens(t)
      n    == Len(toks)
  IN  IF n = 0 THEN {<<>>}
      ELSE
        { LET bounds == SortedSeq(cuts \cup {0, n})
          IN  [k \in 1..(Len(bounds) - 1) |->
                 [has_tokens |-> has,
                  tokens     |-> SubSeq(toks, bounds[k] + 1, bounds[k + 1]),
                  words      |-> Flatten(SubSeq(exp, bounds[k] + 1, bounds[k + 1]))]]
          : cuts \in {c \in SUBSET (1..(n - 1)) : Cardinality(c) < MaxSentences},
            has \in BOOLEAN,
            exp \in {e \in [1..n -> UNION {Expansions(toks[i]) : i \in 1..n}] :
                       \A i \in 1..n : e[i] \in Expansions(toks[i])} }

\* The document of a text with one sentence, every token one word.
PlainDocs(t) ==
  IF StanzaTokens(t) = <<>> THEN {<<>>}
  ELSE {<<[has_tokens |-> TRUE,
           tokens     |-> StanzaTokens(t),
           words      |-> [i \in 1..Len(StanzaTokens(t)) |-> StanzaTokens(t)[i].text]]>>}

\* The documents of a text whose tokens are all single words: the tokens in
\* up to MaxSentences sentences, with or without their offsets.
SentenceDocs(t) ==
  LET toks == StanzaTokens(t)
      n    == Len(toks)
  IN  IF n = 0 THEN {<<>>}
      ELSE
        { LET bounds == SortedSeq(cuts \cup {0, n})
          IN  [k \in 1..(Len(bounds) - 1) |->
                 [has_tokens |-> has,
                  tokens     |-> SubSeq(toks, bounds[k] + 1, bounds[k + 1]),
                  words      |-> [i \in 1..(bounds[k + 1] - bounds[k]) |->
                                    toks[bounds[k] + i].text]]]
          : cuts \in {c \in SUBSET (1..(n - 1)) : Cardinality(c) < MaxSentences},
            has \in BOOLEAN }

\* ---------------------------------------------------- extract_components
\* word_to_pos of one sentence: a dict keyed by token text, so that a later
\* token with the same text overwrites the entry of an earlier one.
word_to_pos(sentence) ==
  IF sentence.has_tokens
    THEN [w \in {sentence.tokens[i].text : i \in 1..Len(sentence.tokens)} |->
            LET last == Max({i \in 1..Len(sentence.tokens) : sentence.tokens[i].text = w})
            IN  <<sentence.tokens[last].start_char, sentence.tokens[last].end_char>>]
    ELSE [w \in {} |-> <<None, None>>]

\* tokens: the word texts of all sentences, in order.
Tokens(d) == Flatten([k \in 1..Len(d) |-> d[k].words])

\* token_positions as left by the loop over doc.sentences.
SentencePositions(sentence) ==
  [i \in 1..Len(sentence.words) |->
     IF sentence.words[i] \in DOMAIN word_to_pos(sentence)
       THEN word_to_pos(sentence)[sentence.words[i]]
       ELSE <<None, None>>]

RawPositions(d) == Flatten([k \in 1..Len(d) |-> SentencePositions(d[k])])

\* Variant: the token is searched for from the start of the text.
ManualStep_fromstart(txt, toks, acc, idx) ==
  LET found       == Find(txt, toks[idx], 0)
      token_start == IF found = -1 THEN acc.char_position ELSE found
      token_end   == token_start + Len(toks[idx])
  IN  [token_positions |-> Append(acc.token_positions, <<token_start, token_end>>),
       char_position   |-> token_end]

\* One iteration of the first branch (no token has a position, all are
\* searched for): acc holds token_positions and char_position.
ManualStep(txt, toks, acc, idx) ==
  LET found       == Find(txt, toks[idx], acc.char_position)
      token_start == IF found = -1 THEN acc.char_position ELSE found
      token_end   == token_start + Len(toks[idx])
  IN  [token_positions |-> Append(acc.token_positions, <<token_start, token_end>>),
       char_position   |-> token_end]

\* The iterations lo..hi of the first branch, in order.  (The range is
\* halved and the first half evaluated before the second is entered, which
\* keeps the evaluation shallow; the test on the first half is always true.)
RECURSIVE ManualRange(_, _, _, _, _)
ManualRange(txt, toks, lo, hi, acc) ==
  IF lo > hi THEN acc
  ELSE IF lo = hi THEN ManualStep(txt, toks, acc, lo)
  ELSE LET mid  == (lo + hi) \div 2
           left == ManualRange(txt, toks, lo, mid, acc)
       IN  IF left.char_position >= 0
             THEN ManualRange(txt, toks, mid + 1, hi, left)
             ELSE left

ManualPositions(txt, toks) ==
  ManualRange(txt, toks, 1, Len(toks),
              [token_positions |-> <<>>, char_position |-> 0]).token_positions

\* One iteration of the second branch: only a token without a position is
\* searched for; a token with one moves char_position to its end.
FillStep(txt, toks, raw, acc, idx) ==
  IF raw[idx] = <<None, None>>
    THEN ManualStep(txt, toks, acc, idx)
    ELSE [token_positions |-> Append(acc.token_positions, raw[idx]),
          char_position   |-> raw[idx][2]]

\* The iterations lo..hi of the second branch, in order.
RECURSIVE FillRange(_, _, _, _, _, _)
FillRange(txt, toks, raw, lo, hi, acc) ==
  IF lo > hi THEN acc
  ELSE IF lo = hi THEN FillStep(txt, toks, raw, acc, lo)
  ELSE LET mid  == (lo + hi) \div 2
           left == FillRange(txt, toks, raw, lo, mid, acc)
       IN  IF left.char_position >= 0
             THEN FillRange(txt, toks, raw, mid + 1, hi, left)
             ELSE left

FillPositions(txt, toks, raw) ==
  FillRange(txt, toks, raw, 1, Len(toks),
            [token_positions |-> <<>>, char_position |-> 0]).token_positions

\* token_positions after both branches.
TokenPositions(txt, d) ==
  LET toks == Tokens(d)
      raw  == RawPositions(d)
  IN  IF \A i \in 1..Len(raw) : raw[i] = <<None, None>>
        THEN ManualPositions(txt, toks)
        ELSE FillPositions(txt, toks, raw)

\* Variant: every label that is neither a conclusion label nor O opens a premise.
IsPremiseLabel_unknown(lab) == lab \notin {"B-C", "I-C", "O"}

IsPremiseLabel(lab) == lab \in {"B-P", "I-P"}

\* Variant: I-P also continues a conclusion.
IsConclusionLabel_shared(lab) == lab \in {"B-C", "I-C", "I-P"}

IsConclusionLabel(lab) == lab \in {"B-C", "I-C"}

\* Variant: start_pos taken from the last token of the run.
MakeComponent_laststart(type, run) ==
  LET tokens_list == [k \in 1..Len(run) |-> run[k][1]]
  IN  [type      |-> type,
       text      |-> Join(tokens_list, <<" ">>),
       start_pos |-> run[Len(run)][2],
       end_pos   |-> run[Len(run)][3],
       tokens    |-> tokens_list]

\* Variant: end_pos taken from the first token of the run.
MakeComponent_firstend(type, run) ==
  LET tokens_list == [k \in 1..Len(run) |-> run[k][1]]
  IN  [type      |-> type,
       text      |-> Join(tokens_list, <<" ">>),
       start_pos |-> run[1][2],
       end_pos   |-> run[1][3],
       tokens    |-> tokens_list]

\* ArgumentComponent(type, text, start_pos, end_pos, tokens) of one run; the
\* run is a list of (tok, token_start, token_end).
MakeComponent(type, run) ==
  LET tokens_list == [k \in 1..Len(run) |-> run[k][1]]
  IN  [type      |-> type,
       text      |-> Join(tokens_list, <<" ">>),
       start_pos |-> run[1][2],
       end_pos   |-> run[Len(run)][3],
       tokens    |-> tokens_list]

\* The premise half of one iteration of the loop over zip(tokens, labels).
PremiseStep(acc, entry, lab) ==
  IF IsPremiseLabel(lab)
    THEN [acc EXCEPT !.current_premise_tokens = Append(@, entry)]
    ELSE IF acc.current_premise_tokens # <<>>
      THEN [acc EXCEPT !.premises = Append(@, MakeComponent("premise", acc.current_premise_tokens)),
                       !.current_premise_tokens = <<>>]
      ELSE acc

\* The conclusion half of one iteration.
ConclusionStep(acc, entry, lab) ==
  IF IsConclusionLabel(lab)
    THEN [acc EXCEPT !.current_conclusion_tokens = Append(@, entry)]
    ELSE IF acc.current_conclusion_tokens # <<>>
      THEN [acc EXCEPT !.conclusions = Append(@, MakeComponent("conclusion", acc.current_conclusion_tokens)),
                       !.current_conclusion_tokens = <<>>]
      ELSE acc

\* zip(tokens, labels) stops at the end of the shorter sequence.
ZipLen(toks, labs) == IF Len(toks) <= Len(labs) THEN Len(toks) ELSE Len(labs)

\* One iteration of the loop over zip(tokens, labels).
DecodeStep(toks, positions, labs, acc, idx) ==
  LET entry == <<toks[idx], positions[idx][1], positions[idx][2]>>
  IN  ConclusionStep(PremiseStep(acc, entry, labs[idx]), entry, labs[idx])

\* The iterations lo..hi of the loop, in order.
RECURSIVE DecodeLoop(_, _, _, _, _, _)
DecodeLoop(toks, positions, labs, lo, hi, acc) ==
  IF lo > hi THEN acc
  ELSE IF lo = hi THEN DecodeStep(toks, positions, labs, acc, lo)
  ELSE LET mid  == (lo + hi) \div 2
           left == DecodeLoop(toks, positions, labs, lo, mid, acc)
       IN  IF Len(left.premises) >= 0 /\ Len(left.conclusions) >= 0
             THEN DecodeLoop(toks, positions, labs, mid + 1, hi, left)
             ELSE left

\* Variant: the runs still open after the last token are dropped.
FlushRemaining_noflush(acc) ==
  [premises |-> acc.premises, conclusions |-> acc.conclusions]

\* "Add remaining sequences": the runs still open after the last token.
FlushRemaining(acc) ==
  [premises    |-> IF acc.current_premise_tokens # <<>>
                     THEN Append(acc.premises, MakeComponent("premise", acc.current_premise_tokens))
                     ELSE acc.premises,
   conclusions |-> IF acc.current_conclusion_tokens # <<>>
                     THEN Append(acc.conclusions, MakeComponent("conclusion", acc.current_conclusion_tokens))
                     ELSE acc.conclusions]

\* The body of extract_components once both models are loaded: the premises
\* and conclusions returned for a text, the tokenizer's document and the
\* tagger's labels.
Decode(txt, d, labs) ==
  FlushRemaining(
    DecodeLoop(Tokens(d), TokenPositions(txt, d), labs, 1, ZipLen(Tokens(d), labs),
               [premises |-> <<>>, conclusions |-> <<>>,
                current_premise_tokens |-> <<>>, current_conclusion_tokens |-> <<>>]))

\* The tag set of the CRF model, and one value outside it.
Labels == {"B-P", "I-P", "B-C", "I-C", "O", "X"}

\* crf_model.predict_single(feats) for n feature rows: the tagger is an
\* external collaborator, and nothing in extract_components checks that it
\* returns one label per token.  It returns n labels, or one label less, or
\* one more (which zip never reads, so one value stands for all).
PredictSingle(n) ==
  [1..n -> Labels]
  \cup (IF n > 0 THEN [1..(n - 1) -> Labels] ELSE {})
  \cup {Append(labs, "O") : labs \in [1..n -> Labels]}

\* The sentence and the tags of the worked example.
ScenarioText ==
  <<"E", "l", " ", "c", "i", "e", "l", "o", " ", "e", "s", " ", "a", "z", "u", "l", " ",
    "l", "u", "e", "g", "o", " ", "l", "l", "u", "e", "v", "e">>

ScenarioTags == <<"O", "B-P", "I-P", "O", "B-C", "O">>

\* The label sequences of the worked example: its tags, with up to one of
\* them replaced.
NearScenarioTags ==
  {[ScenarioTags EXCEPT ![i] = lab] : i \in 1..Len(ScenarioTags), lab \in Labels}

\* The label sequences of the paragraph specification: one label per token,
\* the same label for every token.
UniformLabels(n) == {[i \in 1..n |-> lab] : lab \in Labels}

\* initialize_models: nothing is done once crf_model is set; otherwise the
\* CRF model is loaded and then the Stanza pipeline is built, and an
\* exception at either step is caught and leaves the fields as they are.
\* What a call that enters the body meets: everything loads ("ok"); an
\* exception before crf_model is assigned ("no_model"); joblib.load returns
\* a model and no pipeline can be built ("no_stanza"); joblib.load returns
\* None, which is assigned, and the pipeline is built ("null_model").
\* joblib.load returning None with no pipeline built leaves the fields as
\* "no_model" does.
LoadOutcomes == {"ok", "no_model", "no_stanza", "null_model"}

\* Variant: the models are loaded by every call.
initialize_models_always(crf, nlp, outcome) ==
  IF outcome = "no_model"
    THEN [crf_model |-> crf, nlp_stanza |-> nlp,
          attempted |-> TRUE, loaded_crf |-> FALSE, built_stanza |-> FALSE]
  ELSE IF outcome = "no_stanza"
    THEN [crf_model |-> "loaded", nlp_stanza |-> nlp,
          attempted |-> TRUE, loaded_crf |-> TRUE, built_stanza |-> FALSE]
  ELSE IF outcome = "null_model"
    THEN [crf_model |-> "None", nlp_stanza |-> "loaded",
          attempted |-> TRUE, loaded_crf |-> FALSE, built_stanza |-> TRUE]
  ELSE [crf_model |-> "loaded", nlp_stanza |-> "loaded",
        attempted |-> TRUE, loaded_crf |-> TRUE, built_stanza |-> TRUE]

\* Variant: a call also loads the models when only the pipeline is missing.
initialize_models_retry(crf, nlp, outcome) ==
  IF crf = "None" \/ nlp = "None"
    THEN IF outcome = "no_model"
           THEN [crf_model |-> crf, nlp_stanza |-> nlp,
                 attempted |-> TRUE, loaded_crf |-> FALSE, built_stanza |-> FALSE]
         ELSE IF outcome = "no_stanza"
           THEN [crf_model |-> "loaded", nlp_stanza |-> nlp,
                 attempted |-> TRUE, loaded_crf |-> TRUE, built_stanza |-> FALSE]
         ELSE IF outcome = "null_model"
           THEN [crf_model |-> "None", nlp_stanza |-> "loaded",
                 attempted |-> TRUE, loaded_crf |-> FALSE, built_stanza |-> TRUE]
         ELSE [crf_model |-> "loaded", nlp_stanza |-> "loaded",
               attempted |-> TRUE, loaded_crf |-> TRUE, built_stanza |-> TRUE]
    ELSE [crf_model |-> crf, nlp_stanza |-> nlp,
          attempted |-> FALSE, loaded_crf |-> FALSE, built_stanza |-> FALSE]

\* The result holds the two fields as the call leaves them and what the
\* call did: whether it attempted the load, whether joblib.load returned a
\* model that was assigned, and whether a pipeline was built and assigned.
initialize_models(crf, nlp, outcome) ==
  IF crf = "None"
    THEN IF outcome = "no_model"
           THEN [crf_model |-> "None", nlp_stanza |-> nlp,
                 attempted |-> TRUE, loaded_crf |-> FALSE, built_stanza |-> FALSE]
         ELSE IF outcome = "no_stanza"
           THEN [crf_model |-> "loaded", nlp_stanza |-> nlp,
                 attempted |-> TRUE, loaded_crf |-> TRUE, built_stanza |-> FALSE]
         ELSE IF outcome = "null_model"
           THEN [crf_model |-> "None", nlp_stanza |-> "loaded",
                 attempted |-> TRUE, loaded_crf |-> FALSE, built_stanza |-> TRUE]
         ELSE [crf_model |-> "loaded", nlp_stanza |-> "loaded",
               attempted |-> TRUE, loaded_crf |-> TRUE, built_stanza |-> TRUE]
    ELSE [crf_model |-> crf, nlp_stanza |-> nlp,
          attempted |-> FALSE, loaded_crf |-> FALSE, built_stanza |-> FALSE]

\* The account of the calls of initialize_models after one more call.
CountLoads(loads, svc) ==
  [calls        |-> loads.calls + 1,
   attempts     |-> loads.attempts + (IF svc.attempted THEN 1 ELSE 0),
   crf_loads    |-> loads.crf_loads + (IF svc.loaded_crf THEN 1 ELSE 0),
   stanza_loads |-> loads.stanza_loads + (IF svc.built_stanza THEN 1 ELSE 0)]

\* ------------------------------------------------------ paragraph_service
\* Variant: only the leading whitespace is removed.
Strip_left(s) ==
  LET solid == {i \in 1..Len(s) : ~IsSpace(s[i])}
  IN  IF solid = {} THEN <<>> ELSE Slice(s, Min(solid) - 1, Len(s))

\* s.strip(): s without its leading and trailing whitespace.
Strip(s) ==
  LET solid == {i \in 1..Len(s) : ~IsSpace(s[i])}
  IN  IF solid = {} THEN <<>> ELSE Slice(s, Min(solid) - 1, Max(solid))

\* s.split(sep) for a non-empty separator.
RECURSIVE SplitOn(_, _)
SplitOn(s, sep) ==
  LET at == Find(s, sep, 0)
  IN  IF at = -1 THEN <<s>>
      ELSE <<Slice(s, 0, at)>> \o SplitOn(Slice(s, at + Len(sep), Len(s)), sep)

\* s.split(): the maximal runs of non-whitespace characters of s.
SplitWords(s) ==
  LET starts == SortedSeq({i \in 1..Len(s) :
                             ~IsSpace(s[i]) /\ (i = 1 \/ IsSpace(s[i - 1]))})
      EndOf(i) == Min({j \in i..Len(s) : j = Len(s) \/ IsSpace(s[j + 1])})
  IN  [k \in 1..Len(starts) |-> Slice(s, starts[k] - 1, EndOf(starts[k]))]

\* Paragraphs shorter than this many words are filtered out.
MinParagraphWords == 10

\* Variant: a paragraph one word shorter is kept.
split_into_paragraphs_nine(txt) ==
  LET pieces == SplitOn(txt, <<"\n", "\n">>)
  IN  SelectSeq([k \in 1..Len(pieces) |-> Strip(pieces[k])],
                LAMBDA p : p # <<>> /\ Len(SplitWords(p)) >= MinParagraphWords - 1)

split_into_paragraphs(txt) ==
  LET pieces == SplitOn(txt, <<"\n", "\n">>)
  IN  SelectSeq([k \in 1..Len(pieces) |-> Strip(pieces[k])],
                LAMBDA p : p # <<>> /\ Len(SplitWords(p)) >= MinParagraphWords)

count_words(txt) == Len(SplitWords(txt))

\* Variant: no upper limit.
Clamp_nocap(score) == IF score < 0 THEN 0 ELSE score

\* Variant: no lower limit.
Clamp_nofloor(score) == IF score > 100 THEN 100 ELSE score

\* max(0, min(100, score)).
Clamp(score) == IF score > 100 THEN 100 ELSE IF score < 0 THEN 0 ELSE score

\* Variant: a score on a threshold falls in the lower category.
StrengthCategory_strict(score) ==
  IF score > 70 THEN "muy fuerte"
  ELSE IF score > 50 THEN "fuerte"
  ELSE IF score > 30 THEN "moderada"
  ELSE "débil"

StrengthCategory(score) ==
  IF score >= 70 THEN "muy fuerte"
  ELSE IF score >= 50 THEN "fuerte"
  ELSE IF score >= 30 THEN "moderada"
  ELSE "débil"

\* The density of a paragraph is the float total_components / word_count,
\* or 0.0 for no words; it is kept as the pair of integers, and the float
\* comparisons are made on the fraction.
Density(total, word_count) == [num |-> IF word_count > 0 THEN total ELSE 0,
                               den |-> IF word_count > 0 THEN word_count ELSE 1]

\* Variant: density < 0.15
DensityAbove15_below(density) == density.num * 100 < 15 * density.den

\* Variant: density >= 0.15
DensityAbove15_inclusive(density) == density.num * 100 >= 15 * density.den

\* density > 0.15
DensityAbove15(density) == density.num * 100 > 15 * density.den

\* density < 0.1
DensityBelow10(density) == density.num * 10 < density.den

calculate_paragraph_strength(premises_count, conclusions_count, word_count, density) ==
  LET base     == (premises_count * 15) + (conclusions_count * 20)
      dense    == IF DensityAbove15(density) THEN base + 20 ELSE base
      balanced == IF premises_count > 0 /\ conclusions_count > 0 THEN dense + 10 ELSE dense
      total_components == premises_count + conclusions_count
      penalised == IF total_components = 0
                     THEN balanced - ((word_count \div 50) * 5)
                     ELSE balanced
      score    == Clamp(penalised)
  IN  <<score, StrengthCategory(score)>>

\* Variant: the length of the paragraph is looked at before its density.
generate_recommendation_lengthfirst(premises_count, conclusions_count, density, word_count) ==
  IF premises_count = 0 THEN "Añade premisas que sustenten tus afirmaciones"
  ELSE IF conclusions_count = 0 THEN "Incluye conclusiones que sinteticen las ideas"
  ELSE IF word_count > 150 THEN "Párrafo extenso, considera dividirlo para mayor claridad"
  ELSE IF DensityBelow10(density) THEN "Considera hacer el párrafo más conciso o añadir más argumentación"
  ELSE "None"

generate_recommendation(premises_count, conclusions_count, density, word_count) ==
  IF premises_count = 0 THEN "Añade premisas que sustenten tus afirmaciones"
  ELSE IF conclusions_count = 0 THEN "Incluye conclusiones que sinteticen las ideas"
  ELSE IF DensityBelow10(density) THEN "Considera hacer el párrafo más conciso o añadir más argumentación"
  ELSE IF word_count > 150 THEN "Párrafo extenso, considera dividirlo para mayor claridad"
  ELSE "None"

\* The significand of a Python float has this many bits.
MantissaBits == 53

\* num / den scaled by powers of two into [1, 2), as a pair.
RECURSIVE Normalised(_, _)
Normalised(num, den) ==
  IF num < den THEN Normalised(2 * num, den)
  ELSE IF num >= 2 * den THEN Normalised(num, 2 * den)
  ELSE <<num, den>>

\* Binary long division: what is left of rest / den after so many more
\* bits of the quotient, and the last bit written.
RECURSIVE DivideBits(_, _, _, _)
DivideBits(rest, den, bits, last) ==
  IF bits = 0 THEN [rest |-> rest, last |-> last]
  ELSE IF 2 * rest >= den THEN DivideBits((2 * rest) - den, den, bits - 1, 1)
  ELSE DivideBits(2 * rest, den, bits - 1, 0)

\* total_components / word_count is the float nearest to the fraction (a
\* tie of the division going to the even significand): whether that float
\* is the fraction, or lies above or below it.
FloatError(num, den) ==
  IF num = 0 THEN "exact"
  ELSE LET scaled == Normalised(num, den)
           after  == DivideBits(scaled[1] - scaled[2], scaled[2], MantissaBits - 1, 1)
       IN  IF after.rest = 0 THEN "exact"
           ELSE IF 2 * after.rest > scaled[2] THEN "above"
           ELSE IF 2 * after.rest < scaled[2] THEN "below"
           ELSE IF after.last = 1 THEN "above" ELSE "below"

\* round(density, 3), in thousandths: the thousandth nearest to the float.
\* When the fraction lies half way between two thousandths the float
\* decides: it goes up when the float lies above the fraction, down when
\* below, and to the even thousandth when the float is the fraction.
Round3(density) ==
  LET floor == (1000 * density.num) \div density.den
      rest  == (1000 * density.num) - (floor * density.den)
      error == FloatError(density.num, density.den)
  IN  IF 2 * rest < density.den THEN floor
      ELSE IF 2 * rest > density.den THEN floor + 1
      ELSE IF error = "above" THEN floor + 1
      ELSE IF error = "below" THEN floor
      ELSE IF floor % 2 = 0 THEN floor ELSE floor + 1

\* Variant: every paragraph is searched for from the start of the text.
LocateStep_fromstart(txt, paras, acc, idx) ==
  LET paragraph_text == paras[idx]
      exact          == Find(txt, paragraph_text, 0)
  IN  IF exact # -1
        THEN [paragraph_positions |->
                Append(acc.paragraph_positions,
                       [text |-> paragraph_text, start |-> exact,
                        end |-> exact + Len(paragraph_text)]),
              current_pos |-> exact + Len(paragraph_text)]
      ELSE acc

\* One iteration of the first loop of analyze_paragraphs: the paragraph is
\* searched for from the end of the paragraph located before it, as it is
\* and then with its whitespace collapsed; a paragraph found neither way is
\* skipped.  acc holds paragraph_positions and current_pos.
LocateStep(txt, paras, acc, idx) ==
  LET paragraph_text == paras[idx]
      exact          == Find(txt, paragraph_text, acc.current_pos)
      search_text    == Join(SplitWords(paragraph_text), <<" ">>)
      retry          == Find(txt, search_text, acc.current_pos)
  IN  IF exact # -1
        THEN [paragraph_positions |->
                Append(acc.paragraph_positions,
                       [text |-> paragraph_text, start |-> exact,
                        end |-> exact + Len(paragraph_text)]),
              current_pos |-> exact + Len(paragraph_text)]
      ELSE IF retry # -1
        THEN [paragraph_positions |->
                Append(acc.paragraph_positions,
                       [text |-> paragraph_text, start |-> retry,
                        end |-> retry + Len(search_text)]),
              current_pos |-> retry + Len(search_text)]
      ELSE acc

RECURSIVE LocateRange(_, _, _, _, _)
LocateRange(txt, paras, lo, hi, acc) ==
  IF lo > hi THEN acc
  ELSE IF lo = hi THEN LocateStep(txt, paras, acc, lo)
  ELSE LET mid  == (lo + hi) \div 2
           left == LocateRange(txt, paras, lo, mid, acc)
       IN  IF left.current_pos >= 0
             THEN LocateRange(txt, paras, mid + 1, hi, left)
             ELSE left

paragraph_positions(txt, paras) ==
  LocateRange(txt, paras, 1, Len(paras),
              [paragraph_positions |-> <<>>, current_pos |-> 0]).paragraph_positions

\* Variant: the end of the paragraph counts as inside it.
InParagraph_closed(component, para_info) ==
  IF component.start_pos # None /\ component.end_pos # None
    THEN /\ 2 * para_info.start <= component.start_pos + component.end_pos
         /\ component.start_pos + component.end_pos <= 2 * para_info.end
    ELSE Find(para_info.text, component.text, 0) # -1

\* Variant: the centre is only compared with the end of the paragraph.
InParagraph_nolower(component, para_info) ==
  IF component.start_pos # None /\ component.end_pos # None
    THEN component.start_pos + component.end_pos < 2 * para_info.end
    ELSE Find(para_info.text, component.text, 0) # -1

\* Whether one component is counted in a paragraph: by the centre of its
\* offsets, or by its text when an offset is missing.
InParagraph(component, para_info) ==
  IF component.start_pos # None /\ component.end_pos # None
    THEN /\ 2 * para_info.start <= component.start_pos + component.end_pos
         /\ component.start_pos + component.end_pos < 2 * para_info.end
    ELSE Find(para_info.text, component.text, 0) # -1

CountIn(components, para_info) ==
  Cardinality({k \in 1..Len(components) : InParagraph(components[k], para_info)})

\* The ParagraphAnalysis built for one located paragraph.
AnalyzeOne(para_info, prems, concls) ==
  LET premises_in_paragraph    == CountIn(prems, para_info)
      conclusions_in_paragraph == CountIn(concls, para_info)
      word_count == count_words(para_info.text)
      density    == Density(premises_in_paragraph + conclusions_in_paragraph, word_count)
      strength   == calculate_paragraph_strength(premises_in_paragraph,
                                                 conclusions_in_paragraph, word_count, density)
  IN  [text              |-> para_info.text,
       strength          |-> strength[2],
       premises_count    |-> premises_in_paragraph,
       conclusions_count |-> conclusions_in_paragraph,
       word_count        |-> word_count,
       density           |-> Round3(density),
       strength_score    |-> strength[1],
       recommendation    |-> generate_recommendation(premises_in_paragraph,
                                                     conclusions_in_paragraph, density, word_count)]

analyze_paragraphs(txt, prems, concls) ==
  LET located == paragraph_positions(txt, split_into_paragraphs(txt))
  IN  [k \in 1..Len(located) |-> AnalyzeOne(located[k], prems, concls)]

\* ------------------------------------------------------ the state machine
Alphabet == {"a", ",", " "}

\* The texts of the extraction specifications: every string up to a length.
TextsUpTo(n) == UNION {[1..k -> Alphabet] : k \in 0..n}

\* The texts of the paragraph specification: up to MaxBlocks blocks, each a
\* paragraph of ten words, a shorter one, or white space.
MaxBlocks == 3

TenWords == <<"a", " ", "a", " ", "a", " ", "a", " ", "a", " ",
              "a", " ", "a", " ", "a", " ", "a", " ", "a">>

Blocks == {TenWords, <<",">> \o TenWords, <<"a", " ", "a">>,
           <<"\n", "\n">>, <<"\n">>, <<" ">>}

ParagraphTexts == {Flatten(bs) : bs \in UNION {[1..k -> Blocks] : k \in 0..MaxBlocks}}

\* No call of the scoring functions has been made.
NoArgs == [premises_count |-> 0, conclusions_count |-> 0, word_count |-> 0,
           density |-> Density(0, 0)]

NoResult == [strength_score |-> 0, strength |-> "None", recommendation |-> "None"]

\* No call of initialize_models has been made.
NoLoads == [calls |-> 0, attempts |-> 0, crf_loads |-> 0, stanza_loads |-> 0]

\* No extraction loop of the router has run.
NoLists == [premises |-> <<>>, conclusions |-> <<>>]

\* No request has been made to the users router.
NoRequest == [request |-> "None", scheme |-> "None", token |-> 0, status |-> 0]

\* The usernames of the requests: each is the name of an account of the
\* users table or of none, as registrations and deletions leave it.  An
\* account stands for its row: its username is its key, and its address
\* is its own.
Usernames == {"ana", "eva"}

\* The users table when the process starts: an active account and an
\* inactive one.
InitialUsers == {[username |-> "ana", is_active |-> TRUE],
                 [username |-> "eva", is_active |-> FALSE]}

\* The usernames of the rows of a users table.
AccountNames(accounts) == {user.username : user \in accounts}

\* User.is_active of the account of a username.
is_active(accounts, username) ==
  \E user \in accounts : user.username = username /\ user.is_active

\* The rest of the process when it starts: nothing is loaded, no endpoint
\* has been called, and there are no sessions and no conversations.
InitProcess ==
  /\ users = InitialUsers
  /\ conversations = {}
  /\ model_loads = NoLoads
  /\ router = [crf_model |-> "None", nlp_stanza |-> "None"]
  /\ simple = NoLists
  /\ inline = NoLists
  /\ session_tokens = {}
  /\ now = 0
  /\ http = NoRequest
  /\ generated = {}
  /\ logged_out = {}

InitWith(texts) ==
  /\ text \in texts
  /\ crf_model = "None"
  /\ nlp_stanza = "None"
  /\ doc = <<>>
  /\ labels = <<>>
  /\ premises = <<>>
  /\ conclusions = <<>>
  /\ raised = "None"
  /\ paragraphs = <<>>
  /\ db_components = <<>>
  /\ score_args = NoArgs
  /\ score_result = NoResult
  /\ pc = "start"
  /\ InitProcess

Init == InitWith(TextsUpTo(MaxTextLen))

InitLong == InitWith(TextsUpTo(MaxTextLen + 1))

InitParagraphs == InitWith(ParagraphTexts)

\* Variant: the early return needs both models to be missing.
NotReady_both(crf, nlp) == crf = "None" /\ nlp = "None"

\* "if self.crf_model is None or self.nlp_stanza is None: return"
NotReady(crf, nlp) == crf = "None" \/ nlp = "None"

\* The documents and the label sequences the two collaborators may return,
\* for the short texts of the extraction specifications ("any"), for the
\* long texts of the paragraph specification ("plain") and for the worked
\* example ("scenario"); for a text with repeated tokens ("repeated"), the
\* documents are those of a short text and every token has the same label.
TokenizerDocs(family, txt) ==
  IF family \in {"any", "repeated"} THEN Docs(txt)
  ELSE IF family = "plain" THEN PlainDocs(txt)
  ELSE SentenceDocs(txt)

TaggerLabels(family, n) ==
  IF family = "any" THEN PredictSingle(n)
  ELSE IF family \in {"plain", "repeated"} THEN UniformLabels(n)
  ELSE NearScenarioTags

\* One call of argument_service.extract_components(text).
ExtractFrom(family) ==
  /\ pc = "start"
  /\ \E outcome \in LoadOutcomes :
       LET svc == initialize_models(crf_model, nlp_stanza, outcome)
       IN  /\ crf_model' = svc.crf_model
           /\ nlp_stanza' = svc.nlp_stanza
           /\ model_loads' = CountLoads(model_loads, svc)
           /\ IF NotReady(svc.crf_model, svc.nlp_stanza)
                THEN /\ doc' = <<>>
                     /\ labels' = <<>>
                     /\ premises' = <<>>
                     /\ conclusions' = <<>>
                ELSE \E d \in TokenizerDocs(family, text) :
                       \E labs \in TaggerLabels(family, Len(Tokens(d))) :
                         LET result == Decode(text, d, labs)
                         IN  /\ doc' = d
                             /\ labels' = labs
                             /\ premises' = result.premises
                             /\ conclusions' = result.conclusions
  /\ raised' = "None"
  /\ pc' = "extracted"
  /\ UNCHANGED <<text, paragraphs, dbVars, score_args, score_result,
                 routerVars, sessionVars>>

ExtractComponents == ExtractFrom("any")

ExtractComponentsOfParagraphs == ExtractFrom("plain")

ExtractComponentsOfScenario == ExtractFrom("scenario")

ExtractComponentsOfRepeated == ExtractFrom("repeated")

\* analyze_paragraphs(text, premises, conclusions) on the extracted lists.
AnalyzeParagraphs ==
  /\ pc = "extracted"
  /\ paragraphs' = analyze_paragraphs(text, premises, conclusions)
  /\ pc' = "analyzed"
  /\ UNCHANGED <<text, crf_model, nlp_stanza, doc, labels, premises, conclusions,
                 raised, dbVars, score_args, score_result,
                 model_loads, routerVars, sessionVars>>

Next == ExtractComponents

\* Extraction of the components of every short text.
Spec == Init /\ [][Next]_vars

\* The same, for texts one character longer.
SpecLong == InitLong /\ [][Next]_vars

NextParagraphs == ExtractComponentsOfParagraphs \/ AnalyzeParagraphs

\* Extraction followed by paragraph analysis, for texts made of paragraphs.
SpecParagraphs == InitParagraphs /\ [][NextParagraphs]_vars

InitScenario == InitWith({ScenarioText})

NextScenario == ExtractComponentsOfScenario

\* Extraction of the components of the worked example.
SpecScenario == InitScenario /\ [][NextScenario]_vars

\* A text in which the comma occurs twice and a multi-word token follows
\* another.
RepeatedText == <<",", "a", "a", "a", " ", "a", "a", ",">>

InitRepeated == InitWith({RepeatedText})

NextRepeated == ExtractComponentsOfRepeated

\* Extraction of the components of the text with repeated tokens.
SpecRepeated == InitRepeated /\ [][NextRepeated]_vars

\* Most calls the process-wide service is given.
MaxCalls == 3

\* The module-level argument_service outlives a call: the process goes on
\* to the next call, with a text of its own.
NextCall ==
  /\ pc = "extracted"
  /\ model_loads.calls < MaxCalls
  /\ text' \in TextsUpTo(1)
  /\ pc' = "start"
  /\ UNCHANGED <<crf_model, nlp_stanza, doc, labels, premises, conclusions,
                 raised, paragraphs, dbVars, score_args, score_result,
                 model_loads, routerVars, sessionVars>>

InitCalls == InitWith(TextsUpTo(1))

NextCalls == ExtractComponents \/ NextCall

\* Up to MaxCalls calls of extract_components on the one service.
SpecCalls == InitCalls /\ [][NextCalls]_vars

\* -------------------------------------- direct calls of paragraph_service
\* n words "a" separated by single spaces.
Words(n) == Join([k \in 1..n |-> <<"a">>], <<" ">>)

\* The length of a paragraph of exactly MinParagraphWords one-letter words.
ParagraphEnd == Len(Words(MinParagraphWords))

\* A paragraph without components loses five points per this many words.
PenaltyWords == 50

\* A paragraph of this many words with one component has a density half
\* way between two thousandths (1/80 = 0.0125) that no float is equal to.
HalfwayWords == 80

\* The texts given to analyze_paragraphs: up to MaxBlocks blocks, each a
\* paragraph of just enough words, one of a word too few (with a comma), a
\* paragraph separator or a space; and two long paragraphs.
AnalysisBlocks == {Words(MinParagraphWords), <<",">> \o Words(MinParagraphWords - 1),
                   <<"\n", "\n">>, <<" ">>}

AnalysisTexts ==
  {Flatten(bs) : bs \in UNION {[1..k -> AnalysisBlocks] : k \in 0..MaxBlocks}}
    \cup {Words(PenaltyWords), Words(HalfwayWords)}

\* The texts given to analyze_paragraphs without components: up to
\* MaxSegments blocks, a single newline being one more kind of block.
MaxSegments == 4

SegmentBlocks == AnalysisBlocks \cup {<<"\n">>}

SegmentTexts ==
  {Flatten(bs) : bs \in UNION {[1..k -> SegmentBlocks] : k \in 0..MaxSegments}}

\* ArgumentComponent(type, text, start_pos, end_pos): tokens defaults to None.
Component(type, txt, start_pos, end_pos) ==
  [type |-> type, text |-> txt, start_pos |-> start_pos, end_pos |-> end_pos,
   tokens |-> None]

\* The components given to analyze_paragraphs: with both offsets (centred on
\* the first character, on the end of a first paragraph, and inside a second
\* one), with no offset, and with one offset only.
GivenComponents(type) ==
  <<Component(type, <<"a">>, 1, 1),
    Component(type, <<"a">>, ParagraphEnd, ParagraphEnd),
    Component(type, <<"a", " ", "a">>, ParagraphEnd + 1, ParagraphEnd + 4),
    Component(type, <<",">>, None, None),
    Component(type, <<"a", " ", "a">>, None, 3),
    Component(type, <<"a", ",">>, 5, None)>>

\* Longest list of copies of one component.
MaxCopies == 3

Copies(c, n) == [k \in 1..n |-> c]

\* The premise lists: up to MaxCopies copies of one component, and every
\* two different components.
PremiseLists ==
  LET given == GivenComponents("premise")
      pairs == {ij \in (1..Len(given)) \X (1..Len(given)) : ij[1] < ij[2]}
  IN  {Copies(given[i], n) : i \in 1..Len(given), n \in 0..MaxCopies}
        \cup {<<given[ij[1]], given[ij[2]]>> : ij \in pairs}

\* The conclusion lists: up to MaxCopies copies of a component without a
\* start offset, and one component inside a second paragraph.
ConclusionLists ==
  {Copies(Component("conclusion", <<"a", " ", "a">>, None, 3), n) : n \in 0..MaxCopies}
    \cup {<<Component("conclusion", <<"a", " ", "a">>, ParagraphEnd + 1, ParagraphEnd + 4)>>}

\* Largest component count and word count given to the scoring functions.
MaxCount == 4

MaxWords == 151

\* The densities given to the scoring functions, around 0.1 and 0.15.
ScoreDensities ==
  {[num |-> n, den |-> 1000] : n \in {0, 99, 100, 101, 149, 150, 151, 200, 1000}}

\* A text and two component lists, before analyze_paragraphs is called.
InitGiven ==
  /\ text \in AnalysisTexts
  /\ crf_model = "None"
  /\ nlp_stanza = "None"
  /\ doc = <<>>
  /\ labels = <<>>
  /\ premises \in PremiseLists
  /\ conclusions \in ConclusionLists
  /\ raised = "None"
  /\ paragraphs = <<>>
  /\ db_components = <<>>
  /\ score_args = NoArgs
  /\ score_result = NoResult
  /\ pc = "given"
  /\ InitProcess

\* The four arguments of the scoring functions, before they are called.
InitScore ==
  /\ text = <<>>
  /\ crf_model = "None"
  /\ nlp_stanza = "None"
  /\ doc = <<>>
  /\ labels = <<>>
  /\ premises = <<>>
  /\ conclusions = <<>>
  /\ raised = "None"
  /\ paragraphs = <<>>
  /\ db_components = <<>>
  /\ score_args \in [premises_count : 0..MaxCount, conclusions_count : 0..MaxCount,
                      word_count : 0..MaxWords, density : ScoreDensities]
  /\ score_result = NoResult
  /\ pc = "score"
  /\ InitProcess

InitAnalysis == InitGiven \/ InitScore

\* analyze_paragraphs(text, premises, conclusions) on the given lists.
AnalyzeGiven ==
  /\ pc = "given"
  /\ paragraphs' = analyze_paragraphs(text, premises, conclusions)
  /\ pc' = "analyzed"
  /\ UNCHANGED <<text, crf_model, nlp_stanza, doc, labels, premises, conclusions,
                 raised, dbVars, score_args, score_result,
                 model_loads, routerVars, sessionVars>>

\* calculate_paragraph_strength and generate_recommendation on the given
\* arguments.
ScoreParagraph ==
  /\ pc = "score"
  /\ LET strength == calculate_paragraph_strength(
                        score_args.premises_count, score_args.conclusions_count,
                        score_args.word_count, score_args.density)
     IN  score_result' =
           [strength_score |-> strength[1],
            strength       |-> strength[2],
            recommendation |-> generate_recommendation(
                                 score_args.premises_count, score_args.conclusions_count,
                                 score_args.density, score_args.word_count)]
  /\ pc' = "scored"
  /\ UNCHANGED <<text, crf_model, nlp_stanza, doc, labels, premises, conclusions,
                 raised, paragraphs, dbVars, score_args,
                 model_loads, routerVars, sessionVars>>

\* A text and no components, before analyze_paragraphs is called.
InitSegments ==
  /\ text \in SegmentTexts
  /\ crf_model = "None"
  /\ nlp_stanza = "None"
  /\ doc = <<>>
  /\ labels = <<>>
  /\ premises = <<>>
  /\ conclusions = <<>>
  /\ raised = "None"
  /\ paragraphs = <<>>
  /\ db_components = <<>>
  /\ score_args = NoArgs
  /\ score_result = NoResult
  /\ pc = "given"
  /\ InitProcess

\* Paragraph analysis of texts without components.
SpecSegments == InitSegments /\ [][AnalyzeGiven]_vars

NextAnalysis == AnalyzeGiven \/ ScoreParagraph

\* A paragraph of some words and no components, before it is scored.
InitGrowth ==
  /\ text = <<>>
  /\ crf_model = "None"
  /\ nlp_stanza = "None"
  /\ doc = <<>>
  /\ labels = <<>>
  /\ premises = <<>>
  /\ conclusions = <<>>
  /\ raised = "None"
  /\ paragraphs = <<>>
  /\ db_components = <<>>
  /\ \E word_count \in 1..MaxWords :
       score_args = [premises_count |-> 0, conclusions_count |-> 0,
                     word_count |-> word_count, density |-> Density(0, word_count)]
  /\ score_result = NoResult
  /\ pc = "score"
  /\ InitProcess

\* calculate_paragraph_strength and generate_recommendation called again
\* for the same paragraph with one more premise or one more conclusion, the
\* density being that of the new counts.
ScoreWithOneMore ==
  /\ pc = "scored"
  /\ \E field \in {"premises_count", "conclusions_count"} :
       /\ score_args[field] < MaxCount
       /\ LET args == [score_args EXCEPT
                         ![field] = @ + 1,
                         !.density = Density(score_args.premises_count
                                               + score_args.conclusions_count + 1,
                                             score_args.word_count)]
              strength == calculate_paragraph_strength(
                            args.premises_count, args.conclusions_count,
                            args.word_count, args.density)
          IN  /\ score_args' = args
              /\ score_result' =
                   [strength_score |-> strength[1],
                    strength       |-> strength[2],
                    recommendation |-> generate_recommendation(
                                         args.premises_count, args.conclusions_count,
                                         args.density, args.word_count)]
  /\ UNCHANGED <<text, crf_model, nlp_stanza, doc, labels, premises, conclusions,
                 raised, paragraphs, dbVars, pc,
                 model_loads, routerVars, sessionVars>>

NextGrowth == ScoreParagraph \/ ScoreWithOneMore

\* Scoring of one paragraph as components are added to it.
SpecGrowth == InitGrowth /\ [][NextGrowth]_vars

\* ------------------------------------------- the simple extraction loop
\* Variant: a label and a prefix match when one starts with the other.
StartsWith_common(s, prefix) ==
  LET n == IF Len(s) <= Len(prefix) THEN Len(s) ELSE Len(prefix)
  IN  SubSeq(s, 1, n) = SubSeq(prefix, 1, n)

\* s.startswith(prefix)
StartsWith(s, prefix) ==
  Len(s) >= Len(prefix) /\ SubSeq(s, 1, Len(prefix)) = prefix

\* 'B-Premise', 'I-Premise', 'B-Claim', 'I-Claim'
BPremise == <<"B", "-", "P", "r", "e", "m", "i", "s", "e">>

IPremise == <<"I", "-", "P", "r", "e", "m", "i", "s", "e">>

BClaim == <<"B", "-", "C", "l", "a", "i", "m">>

IClaim == <<"I", "-", "C", "l", "a", "i", "m">>

\* The premise half of one iteration of the simple loop: acc holds
\* premises, conclusions, current_premise and current_conclusion.
SimplePremiseStep(acc, tok, lab) ==
  IF StartsWith(lab, BPremise) \/ StartsWith(lab, IPremise)
    THEN [acc EXCEPT !.current_premise = Append(@, tok)]
    ELSE IF acc.current_premise # <<>>
      THEN [acc EXCEPT !.premises = Append(@, Join(acc.current_premise, <<" ">>)),
                       !.current_premise = <<>>]
      ELSE acc

\* The conclusion half of one iteration.
SimpleConclusionStep(acc, tok, lab) ==
  IF StartsWith(lab, BClaim) \/ StartsWith(lab, IClaim)
    THEN [acc EXCEPT !.current_conclusion = Append(@, tok)]
    ELSE IF acc.current_conclusion # <<>>
      THEN [acc EXCEPT !.conclusions = Append(@, Join(acc.current_conclusion, <<" ">>)),
                       !.current_conclusion = <<>>]
      ELSE acc

\* The first n iterations of the loop over zip(tokens, labels).
RECURSIVE SimpleLoop(_, _, _)
SimpleLoop(toks, labs, n) ==
  IF n = 0
    THEN [premises |-> <<>>, conclusions |-> <<>>,
          current_premise |-> <<>>, current_conclusion |-> <<>>]
    ELSE SimpleConclusionStep(
           SimplePremiseStep(SimpleLoop(toks, labs, n - 1), toks[n], labs[n]),
           toks[n], labs[n])

\* The loop and the two statements after it ("Add remaining"): the lists
\* of strings built from the tokens and the labels.
extract_simple_lists(toks, labs) ==
  LET acc == SimpleLoop(toks, labs, ZipLen(toks, labs))
  IN  [premises    |-> IF acc.current_premise # <<>>
                         THEN Append(acc.premises, Join(acc.current_premise, <<" ">>))
                         ELSE acc.premises,
       conclusions |-> IF acc.current_conclusion # <<>>
                         THEN Append(acc.conclusions, Join(acc.current_conclusion, <<" ">>))
                         ELSE acc.conclusions]

\* init_crf_model of the router: the same steps as initialize_models, on
\* the module-level crf_model and nlp_stanza of the router.
init_crf_model(crf, nlp, outcome) ==
  IF crf = "None"
    THEN IF outcome = "no_model" THEN [crf_model |-> "None", nlp_stanza |-> nlp]
         ELSE IF outcome = "no_stanza" THEN [crf_model |-> "loaded", nlp_stanza |-> nlp]
         ELSE IF outcome = "null_model" THEN [crf_model |-> "None", nlp_stanza |-> "loaded"]
         ELSE [crf_model |-> "loaded", nlp_stanza |-> "loaded"]
    ELSE [crf_model |-> crf, nlp_stanza |-> nlp]

\* The tags of the CRF model, spelt out; the four tags the simple loop
\* names; a tag that only starts like one of them, and one that one of them
\* starts like.
ShortTags == {<<"B", "-", "P">>, <<"I", "-", "P">>, <<"B", "-", "C">>, <<"I", "-", "C">>,
              <<"O">>}

SimpleTags ==
  ShortTags \cup {BPremise, IPremise, BClaim, IClaim}
            \cup {Append(BPremise, "s"), SubSeq(BClaim, 1, 4)}

\* Longest label sequence of the simple extraction.
MaxTags == 3

\* The texts of the simple extraction: up to MaxTags words, white space
\* only, and a word between spaces.
SimpleTexts == {Words(n) : n \in 0..MaxTags} \cup {<<" ">>, <<" ", "a", " ">>}

InitSimple == InitWith(SimpleTexts)

\* One call of argument_service.extract_simple_components(text).
ExtractSimpleComponents ==
  /\ pc = "start"
  /\ \E outcome \in LoadOutcomes :
       LET svc == initialize_models(crf_model, nlp_stanza, outcome)
       IN  /\ crf_model' = svc.crf_model
           /\ nlp_stanza' = svc.nlp_stanza
           /\ model_loads' = CountLoads(model_loads, svc)
           /\ IF NotReady(svc.crf_model, svc.nlp_stanza)
                THEN /\ doc' = <<>>
                     /\ labels' = <<>>
                     /\ simple' = NoLists
                ELSE \E d \in PlainDocs(text) :
                       \E labs \in [1..Len(Tokens(d)) -> SimpleTags] :
                         /\ doc' = d
                         /\ labels' = labs
                         /\ simple' = extract_simple_lists(Tokens(d), labs)
  /\ raised' = "None"
  /\ pc' = "simple"
  /\ UNCHANGED <<text, premises, conclusions, paragraphs, dbVars,
                 score_args, score_result, router, inline, sessionVars>>

\* Most rows of the conversations table, and of the analyses table.
MaxKeys == 2

\* The primary keys of the rows.
Keys == 1..MaxKeys

\* The key the database gives to a new row of a table whose rows have the
\* given keys: SQLite (the database of core/database.py) gives an integer
\* primary key one more than the largest in the table, 1 in an empty one.
NewKey(used) == IF used = {} THEN 1 ELSE Max(used) + 1

\* The user get_current_user returned for the requests to the arguments
\* router.
CurrentUser == "ana"

\* What becomes of the call to OpenAI: there is no client (no API key),
\* the client answers, or the call raises.
OpenAI == {"absent", "answers", "fails"}

\* json.dumps of a list of strings without quotes, backslashes or
\* non-ASCII characters: each string in double quotes, the strings
\* separated by a comma and a space, in square brackets.
json_dumps(tokens) ==
  <<"[">> \o Join([k \in 1..Len(tokens) |-> <<"\"">> \o tokens[k] \o <<"\"">>],
                  <<",", " ">>)
          \o <<"]">>

\* The ArgumentComponent rows of an analysis: one per premise and then one
\* per conclusion, sequence_order being the index of enumerate.
ComponentRows(analysis_id, prems, concls) ==
  [k \in 1..Len(prems) |->
     [analysis_id |-> analysis_id, component_type |-> "PREMISE",
      text |-> prems[k].text, tokens |-> json_dumps(prems[k].tokens),
      start_pos |-> prems[k].start_pos, end_pos |-> prems[k].end_pos,
      sequence_order |-> k - 1]]
  \o
  [k \in 1..Len(concls) |->
     [analysis_id |-> analysis_id, component_type |-> "CONCLUSION",
      text |-> concls[k].text, tokens |-> json_dumps(concls[k].tokens),
      start_pos |-> concls[k].start_pos, end_pos |-> concls[k].end_pos,
      sequence_order |-> k - 1]]

\* The keys of the analyses in the database.
AnalysisKeys == UNION {c.analyses : c \in conversations}

\* "Save to database" of the three endpoints: the conversation of the
\* request is looked up among those of the user (404 when it is not
\* there) or a new one is added; a message and its analysis are added to
\* it, and the rows of the components of the analysis.
StoreAnalysis(conversation_id, prems, concls) ==
  IF /\ conversation_id # None
     /\ ~\E c \in conversations : c.id = conversation_id /\ c.user_id = CurrentUser
    THEN /\ raised' = "HTTPException(404)"
         /\ UNCHANGED dbVars
    ELSE LET analysis_id == NewKey(AnalysisKeys)
             id          == NewKey({c.id : c \in conversations})
         IN
           /\ analysis_id \in Keys
           /\ conversation_id = None => id \in Keys
           /\ raised' = "None"
           /\ IF conversation_id = None
                THEN conversations' = conversations \cup
                       {[id |-> id, user_id |-> CurrentUser,
                         analyses |-> {analysis_id}]}
                ELSE conversations' =
                       {IF c.id = conversation_id
                          THEN [c EXCEPT !.analyses = @ \cup {analysis_id}]
                          ELSE c : c \in conversations}
           /\ db_components' = db_components \o ComponentRows(analysis_id, prems, concls)

\* POST /conversations, for an authenticated request: a conversation of
\* the user is added, with no message and no analysis.
CreateConversation ==
  /\ pc = "start"
  /\ LET id == NewKey({c.id : c \in conversations})
     IN  /\ id \in Keys
         /\ conversations' = conversations \cup
              {[id |-> id, user_id |-> CurrentUser, analyses |-> {}]}
  /\ UNCHANGED <<text, crf_model, nlp_stanza, doc, labels, premises, conclusions,
                 raised, paragraphs, db_components, score_args, score_result, pc,
                 model_loads, routerVars, sessionVars>>

\* The /analyze endpoint ("analyze") and the /recommendations endpoint
\* ("recommendations"), for an authenticated request.  A request with an
\* empty text is answered 422 before the endpoint is entered (the text of
\* the request has min_length 1).  Otherwise the models are initialized and
\* the text is stripped; with both models, /analyze answers 400 to an empty
\* stripped text and /recommendations skips the extraction.
\* /recommendations answers 502 when it found a component and the call to
\* OpenAI raises.  Then the analysis is stored, without component rows.
EndpointExtraction(endpoint) ==
  /\ pc = "start"
  /\ IF text = <<>>
       THEN /\ raised' = "RequestValidationError(422)"
            /\ UNCHANGED <<router, doc, labels, simple, dbVars>>
       ELSE \E outcome \in LoadOutcomes, conversation_id \in {None} \cup Keys,
               openai \in OpenAI :
              LET models == init_crf_model(router.crf_model, router.nlp_stanza, outcome)
                  texto  == Strip(text)
                  ready  == models.crf_model # "None" /\ models.nlp_stanza # "None"
              IN  /\ router' = models
                  /\ IF ready /\ texto = <<>> /\ endpoint = "analyze"
                       THEN /\ doc' = <<>>
                            /\ labels' = <<>>
                            /\ simple' = NoLists
                            /\ raised' = "HTTPException(400)"
                            /\ UNCHANGED dbVars
                     ELSE IF ~ready \/ texto = <<>>
                       THEN /\ doc' = <<>>
                            /\ labels' = <<>>
                            /\ simple' = NoLists
                            /\ StoreAnalysis(conversation_id, <<>>, <<>>)
                     ELSE \E d \in PlainDocs(texto) :
                            \E labs \in [1..Len(Tokens(d)) -> SimpleTags] :
                              LET lists == extract_simple_lists(Tokens(d), labs)
                              IN  /\ doc' = d
                                  /\ labels' = labs
                                  /\ simple' = lists
                                  /\ IF /\ endpoint = "recommendations"
                                        /\ openai = "fails"
                                        /\ lists # NoLists
                                       THEN /\ raised' = "HTTPException(502)"
                                            /\ UNCHANGED dbVars
                                       ELSE StoreAnalysis(conversation_id, <<>>, <<>>)
  /\ pc' = endpoint
  /\ UNCHANGED <<text, crf_model, nlp_stanza, premises, conclusions, paragraphs,
                 score_args, score_result, model_loads, inline, sessionVars>>

AnalyzeArgument == EndpointExtraction("analyze")

GetRecommendations == EndpointExtraction("recommendations")

NextSimple ==
  \/ ExtractSimpleComponents
  \/ CreateConversation
  \/ AnalyzeArgument
  \/ GetRecommendations

\* The simple extraction of the service and of the two endpoints, after
\* the conversations that were created.
SpecSimple == InitSimple /\ [][NextSimple]_vars

\* ------------------------------------ the extraction of /complete-analysis
\* Variant: a token that is not found keeps the result of the search.
InlinePosition_nofallback(texto, tok, char_position) ==
  LET token_start == Find(texto, tok, char_position)
  IN  <<token_start, token_start + Len(tok)>>

\* "Find token position in original text": the first occurrence at or
\* after char_position, or char_position itself when there is none.
InlinePosition(texto, tok, char_position) ==
  LET found       == Find(texto, tok, char_position)
      token_start == IF found = -1 THEN char_position ELSE found
  IN  <<token_start, token_start + Len(tok)>>

\* The ArgumentComponent the endpoint builds from a run of
\* (tok, token_start, token_end).
InlineComponent(type, run) ==
  LET tokens_list == [k \in 1..Len(run) |-> run[k][1]]
  IN  [type      |-> type,
       text      |-> Join(tokens_list, <<" ">>),
       start_pos |-> run[1][2],
       end_pos   |-> run[Len(run)][3],
       tokens    |-> tokens_list]

\* One iteration of the endpoint's loop over zip(tokens, labels): acc holds
\* premises, conclusions, the two open runs and char_position.
InlineStep(texto, acc, tok, lab) ==
  LET position == InlinePosition(texto, tok, acc.char_position)
      entry    == <<tok, position[1], position[2]>>
      moved    == [acc EXCEPT !.char_position = position[2]]
      premise  ==
        IF lab \in {"B-P", "I-P"}
          THEN [moved EXCEPT !.current_premise_tokens = Append(@, entry)]
          ELSE IF moved.current_premise_tokens # <<>>
            THEN [moved EXCEPT
                    !.premises = Append(@, InlineComponent("premise",
                                                           moved.current_premise_tokens)),
                    !.current_premise_tokens = <<>>]
            ELSE moved
  IN  IF lab \in {"B-C", "I-C"}
        THEN [premise EXCEPT !.current_conclusion_tokens = Append(@, entry)]
        ELSE IF premise.current_conclusion_tokens # <<>>
          THEN [premise EXCEPT
                  !.conclusions = Append(@, InlineComponent("conclusion",
                                                            premise.current_conclusion_tokens)),
                  !.current_conclusion_tokens = <<>>]
          ELSE premise

\* The first n iterations of the loop.
RECURSIVE InlineLoop(_, _, _, _)
InlineLoop(texto, toks, labs, n) ==
  IF n = 0
    THEN [premises |-> <<>>, conclusions |-> <<>>,
          current_premise_tokens |-> <<>>, current_conclusion_tokens |-> <<>>,
          char_position |-> 0]
    ELSE InlineStep(texto, InlineLoop(texto, toks, labs, n - 1), toks[n], labs[n])

\* The loop and "Add remaining sequences".
inline_extraction(texto, toks, labs) ==
  LET acc == InlineLoop(texto, toks, labs, ZipLen(toks, labs))
  IN  [premises    |-> IF acc.current_premise_tokens # <<>>
                         THEN Append(acc.premises,
                                     InlineComponent("premise", acc.current_premise_tokens))
                         ELSE acc.premises,
       conclusions |-> IF acc.current_conclusion_tokens # <<>>
                         THEN Append(acc.conclusions,
                                     InlineComponent("conclusion",
                                                     acc.current_conclusion_tokens))
                         ELSE acc.conclusions]

\* A document as a tokenizer returns it that gives no offsets: the
\* sentences have no tokens attribute.
WithoutOffsets(d) == [k \in 1..Len(d) |-> [d[k] EXCEPT !.has_tokens = FALSE]]

\* The /complete-analysis endpoint, for an authenticated request.  A
\* request with an empty text is answered 422 before the endpoint is
\* entered.  Otherwise the models are initialized, the text is stripped and
\* an empty one is answered 400; the endpoint reads the words of the
\* document only; the analysis is stored with one row per component.  An
\* exception of a call to OpenAI is caught and changes none of this.
CompleteAnalysis ==
  /\ pc = "start"
  /\ IF text = <<>>
       THEN /\ raised' = "RequestValidationError(422)"
            /\ UNCHANGED <<router, doc, labels, inline, dbVars>>
       ELSE \E outcome \in LoadOutcomes, conversation_id \in {None} \cup Keys :
              LET models == init_crf_model(router.crf_model, router.nlp_stanza, outcome)
                  texto  == Strip(text)
              IN  /\ router' = models
                  /\ IF texto = <<>>
                       THEN /\ doc' = <<>>
                            /\ labels' = <<>>
                            /\ inline' = NoLists
                            /\ raised' = "HTTPException(400)"
                            /\ UNCHANGED dbVars
                     ELSE IF models.crf_model = "None" \/ models.nlp_stanza = "None"
                       THEN /\ doc' = <<>>
                            /\ labels' = <<>>
                            /\ inline' = NoLists
                            /\ StoreAnalysis(conversation_id, <<>>, <<>>)
                     ELSE \E d \in {WithoutOffsets(dd) : dd \in Docs(texto)} :
                            \E labs \in PredictSingle(Len(Tokens(d))) :
                              LET lists == inline_extraction(texto, Tokens(d), labs)
                              IN  /\ doc' = d
                                  /\ labels' = labs
                                  /\ inline' = lists
                                  /\ StoreAnalysis(conversation_id, lists.premises,
                                                   lists.conclusions)
  /\ pc' = "completed"
  /\ UNCHANGED <<text, crf_model, nlp_stanza, premises, conclusions, paragraphs,
                 score_args, score_result, model_loads, simple, sessionVars>>

\* DELETE /conversation/{conversation_id} of the arguments router, which
\* asks for no authentication: 404 when there is no such conversation;
\* otherwise the conversation is deleted, and with it its messages, their
\* analyses and the rows of their components.  The request is another
\* one: nothing of the extraction of the earlier request is left.
DeleteConversation ==
  /\ pc \in {"start", "completed"}
  /\ \E conversation_id \in Keys :
       LET found == {c \in conversations : c.id = conversation_id}
           gone  == UNION {c.analyses : c \in found}
       IN  IF found = {}
             THEN /\ raised' = "HTTPException(404)"
                  /\ UNCHANGED dbVars
             ELSE /\ raised' = "None"
                  /\ conversations' = conversations \ found
                  /\ db_components' =
                       SelectSeq(db_components, LAMBDA row : row.analysis_id \notin gone)
  /\ doc' = <<>>
  /\ labels' = <<>>
  /\ inline' = NoLists
  /\ pc' = "deleted"
  /\ UNCHANGED <<text, crf_model, nlp_stanza, premises, conclusions, paragraphs,
                 score_args, score_result, model_loads, router, simple,
                 sessionVars>>

\* extract_components called with the text the endpoint analysed, the
\* tokenizer returning the same words without offsets and the tagger the
\* same labels.
ExtractComponentsOfSame ==
  /\ pc = "completed"
  /\ raised = "None"
  /\ \E outcome \in LoadOutcomes :
       LET svc == initialize_models(crf_model, nlp_stanza, outcome)
       IN  /\ crf_model' = svc.crf_model
           /\ nlp_stanza' = svc.nlp_stanza
           /\ model_loads' = CountLoads(model_loads, svc)
           /\ IF NotReady(svc.crf_model, svc.nlp_stanza)
                THEN /\ premises' = <<>>
                     /\ conclusions' = <<>>
                ELSE LET result == Decode(Strip(text), doc, labels)
                     IN  /\ premises' = result.premises
                         /\ conclusions' = result.conclusions
  /\ pc' = "compared"
  /\ UNCHANGED <<text, doc, labels, raised, paragraphs, dbVars,
                 score_args, score_result, routerVars, sessionVars>>

NextInline == CompleteAnalysis \/ ExtractComponentsOfSame \/ DeleteConversation

\* The /complete-analysis endpoint, then extract_components on the same
\* text, words and labels, or the deletion of a conversation.
SpecInline == Init /\ [][NextInline]_vars

\* The texts of the requests that store an analysis: the short ones, and
\* one that repeats a word after two commas.
StoredTexts == TextsUpTo(2) \cup {<<"a", ",", ",", "a">>}

InitStored == InitWith(StoredTexts)

NextStored ==
  \/ ExtractComponents
  \/ CreateConversation
  \/ CompleteAnalysis
  \/ DeleteConversation

\* extract_components of the service; or conversations are created and
\* deleted, and the /complete-analysis endpoint stores an analysis in one
\* of them or in a new one.
SpecStored == InitStored /\ [][NextStored]_vars

\* ------------------------------------------------ sessions (users router)
\* Most tokens generate_token is asked for.
MaxTokens == 2

\* generate_token(): a token is numbered by the order of the pool; it
\* returns 256 random bits, and a token it has returned before is not
\* returned again.
TokenPool == 1..MaxTokens

\* create_expiration_time(days=7)
SessionDays == 7

\* Last day of the clock: the day after the sessions of day 0 expire.
LastDay == SessionDays + 1

\* SessionToken.is_expired: datetime.utcnow() > self.expires_at
is_expired(session, clock) == clock > session.expires_at

\* The Authorization headers of a request: a bearer token, or the same
\* value under another scheme.
Authorizations == [scheme : {"Bearer", "Basic"}, token : TokenPool]

\* get_current_user: the status it answers with (200 when it returns the
\* user) and the user of the session.
get_current_user(authorization, rows, accounts, clock) ==
  IF authorization.scheme # "Bearer"
    THEN [status |-> 401, user |-> "None"]
    ELSE LET found == {row \in rows : row.token = authorization.token}
         IN  IF found = {} \/ \E row \in found : is_expired(row, clock)
               THEN [status |-> 401, user |-> "None"]
               ELSE LET session == CHOOSE row \in found : TRUE
                    IN  IF session.user_id \notin AccountNames(accounts) \/ ~is_active(accounts, session.user_id)
                          THEN [status |-> 401, user |-> "None"]
                          ELSE [status |-> 200, user |-> session.user_id]

\* Variant: logout ends every session of the user.
logout_user_all(token, rows) ==
  {row \in rows : \A mine \in rows : mine.token = token => row.user_id # mine.user_id}

\* logout_user, once get_current_user has returned: the row of the token
\* is deleted.
logout_user(token, rows) == {row \in rows : row.token # token}

serviceVars == <<text, crf_model, nlp_stanza, doc, labels, premises, conclusions,
                 raised, paragraphs, dbVars, score_args, score_result, pc,
                 model_loads>>

\* POST /login
LoginUser ==
  /\ \E username \in Usernames, password_ok \in BOOLEAN :
       IF username \notin AccountNames(users) \/ ~password_ok
         THEN /\ http' = [request |-> "login", scheme |-> "None", token |-> 0,
                          status |-> 401]
              /\ UNCHANGED <<session_tokens, generated>>
       ELSE IF ~is_active(users, username)
         THEN /\ http' = [request |-> "login", scheme |-> "None", token |-> 0,
                          status |-> 403]
              /\ UNCHANGED <<session_tokens, generated>>
       ELSE LET token == Min(TokenPool \ generated)
            IN
              /\ TokenPool \ generated # {}
              /\ session_tokens' = session_tokens \cup
                   {[token |-> token, user_id |-> username,
                     expires_at |-> now + SessionDays]}
              /\ generated' = generated \cup {token}
              /\ http' = [request |-> "login", scheme |-> "None", token |-> token,
                          status |-> 200]
  /\ UNCHANGED <<users, now, logged_out, serviceVars, routerVars>>

\* POST /logout
LogoutUser ==
  /\ \E authorization \in Authorizations :
       LET current == get_current_user(authorization, session_tokens, users, now)
       IN  IF current.status # 200
             THEN /\ http' = [request |-> "logout", scheme |-> authorization.scheme,
                              token |-> authorization.token, status |-> current.status]
                  /\ UNCHANGED <<session_tokens, logged_out>>
             ELSE /\ session_tokens' = logout_user(authorization.token, session_tokens)
                  /\ logged_out' = logged_out \cup
                       {[token |-> row.token, user_id |-> row.user_id] :
                          row \in {mine \in session_tokens :
                                     mine.token = authorization.token}}
                  /\ http' = [request |-> "logout", scheme |-> authorization.scheme,
                              token |-> authorization.token, status |-> 200]
  /\ UNCHANGED <<users, now, generated, serviceVars, routerVars>>

\* GET /me, as any request that depends on get_current_user.
GetCurrentUserInfo ==
  /\ \E authorization \in Authorizations :
       http' = [request |-> "me", scheme |-> authorization.scheme,
                token |-> authorization.token,
                status |-> get_current_user(authorization, session_tokens, users, now).status]
  /\ UNCHANGED <<users, session_tokens, now, generated, logged_out, serviceVars, routerVars>>

\* A day passes.
DayPasses ==
  /\ now < LastDay
  /\ now' = now + 1
  /\ UNCHANGED <<users, session_tokens, http, generated, logged_out, serviceVars, routerVars>>

\* POST /register, which asks for no authentication: 422 when the request
\* is not valid (a password of fewer than 6 characters, an address that is
\* none); 400 when the address of the request is that of an account or the
\* username is taken; otherwise a row is added to the users table, active
\* by default.  The address of the request is that of the account email
\* names, or of no account ("None").
RegisterUser ==
  /\ \E username \in Usernames, valid \in BOOLEAN,
        email \in AccountNames(users) \cup {"None"} :
       IF ~valid
         THEN /\ http' = [request |-> "register", scheme |-> "None", token |-> 0,
                          status |-> 422]
              /\ UNCHANGED users
       ELSE IF email # "None" \/ username \in AccountNames(users)
         THEN /\ http' = [request |-> "register", scheme |-> "None", token |-> 0,
                          status |-> 400]
              /\ UNCHANGED users
       ELSE /\ users' = users \cup {[username |-> username, is_active |-> TRUE]}
            /\ http' = [request |-> "register", scheme |-> "None", token |-> 0,
                        status |-> 201]
  /\ UNCHANGED <<session_tokens, now, generated, logged_out, serviceVars, routerVars>>

\* DELETE /{user_id} of the users router, which asks for no
\* authentication: 404 when there is no such user; otherwise the user is
\* deleted, and with it its sessions and its conversations (cascade).
DeleteUser ==
  /\ \E username \in Usernames :
       IF username \notin AccountNames(users)
         THEN /\ http' = [request |-> "delete_user", scheme |-> "None", token |-> 0,
                          status |-> 404]
              /\ UNCHANGED <<users, session_tokens, dbVars>>
         ELSE LET gone == UNION {c.analyses : c \in {c \in conversations :
                                                       c.user_id = username}}
              IN  /\ users' = {user \in users : user.username # username}
                  /\ session_tokens' = {row \in session_tokens : row.user_id # username}
                  /\ conversations' = {c \in conversations : c.user_id # username}
                  /\ db_components' =
                       SelectSeq(db_components, LAMBDA row : row.analysis_id \notin gone)
                  /\ http' = [request |-> "delete_user", scheme |-> "None", token |-> 0,
                              status |-> 200]
  /\ UNCHANGED <<now, generated, logged_out, text, crf_model, nlp_stanza, doc, labels,
                 premises, conclusions, raised, paragraphs, score_args, score_result,
                 pc, model_loads, routerVars>>

InitSessions == InitWith({<<>>})

NextSessions ==
  \/ RegisterUser
  \/ LoginUser
  \/ LogoutUser
  \/ GetCurrentUserInfo
  \/ DeleteUser
  \/ DayPasses

\* Registrations, logins, logouts, authenticated requests and deletions of
\* accounts over the days.
SpecSessions == InitSessions /\ [][NextSessions]_vars

\* Paragraph analysis of given component lists, and scoring of given counts.
SpecAnalysis == InitAnalysis /\ [][NextAnalysis]_vars

\* ------------------------------------------------------------- properties
\* The label sets of the two classes, and the maximal runs of a class in
\* the first n labels, as pairs <<first, last>> of token indices.
PremiseTags == {"B-P", "I-P"}

ConclusionTags == {"B-C", "I-C"}

KnownTags == {"B-P", "I-P", "B-C", "I-C", "O"}

RunStarts(labs, n, tags) ==
  {i \in 1..n : labs[i] \in tags /\ (i = 1 \/ labs[i - 1] \notin tags)}

RunEndOf(labs, n, tags, i) == Min({j \in i..n : j = n \/ labs[j + 1] \notin tags})

Runs(labs, n, tags) ==
  LET starts == SortedSeq(RunStarts(labs, n, tags))
  IN  [k \in 1..Len(starts) |-> <<starts[k], RunEndOf(labs, n, tags, starts[k])>>]

\* extract_components has just returned (the later steps leave its inputs
\* and its result unchanged).
Returned == pc = "extracted"

\* It returned after decoding the labels, not at the early return.
Decoded == Returned /\ crf_model = "loaded" /\ nlp_stanza = "loaded"

Aligned == Len(labels) = Len(Tokens(doc))

\* The token texts of all components of a list, in order.
TokensIn(components) == Flatten([k \in 1..Len(components) |-> components[k].tokens])

\* The texts of the tokens among the first n whose label is in tags, in order.
TokensTagged(toks, labs, n, tags) ==
  LET idxs == SortedSeq({i \in 1..n : labs[i] \in tags})
  IN  [k \in 1..Len(idxs) |-> toks[idxs[k]]]

\* C1: for tokens and labels of the same length, there are as many premises
\* as maximal runs of B-P/I-P labels and as many conclusions as maximal runs
\* of B-C/I-C labels, a run that ends at the last token included.
C1_OneComponentPerRun ==
  (Returned /\ Aligned) =>
    /\ Len(premises) = Cardinality(RunStarts(labels, Len(labels), PremiseTags))
    /\ Len(conclusions) = Cardinality(RunStarts(labels, Len(labels), ConclusionTags))

C1_Witness ==
  /\ pc = "extracted"
  /\ Aligned
  /\ Len(labels) >= 3
  /\ labels[Len(labels)] \in PremiseTags
  /\ Len(premises) = 2

\* The component a run <<first, last>> of tokens stands for.
ComponentOfRun(type, toks, positions, run) ==
  [type      |-> type,
   text      |-> Join(SubSeq(toks, run[1], run[2]), <<" ">>),
   start_pos |-> positions[run[1]][1],
   end_pos   |-> positions[run[2]][2],
   tokens    |-> SubSeq(toks, run[1], run[2])]

ComponentsOfRuns(type, tags) ==
  LET toks == Tokens(doc)
      runs == Runs(labels, ZipLen(toks, labels), tags)
  IN  [k \in 1..Len(runs) |-> ComponentOfRun(type, toks, TokenPositions(text, doc), runs[k])]

\* C2: every component is exactly its run: tokens are the run's token texts
\* in order, text is those joined by single spaces, start_pos is the resolved
\* start of the run's first token and end_pos the resolved end of its last.
C2_ComponentReflectsRun ==
  Decoded =>
    /\ premises = ComponentsOfRuns("premise", PremiseTags)
    /\ conclusions = ComponentsOfRuns("conclusion", ConclusionTags)

C2_Witness ==
  /\ pc = "extracted"
  /\ \E k \in 1..Len(premises) :
       /\ Len(premises[k].tokens) >= 2
       /\ premises[k].end_pos > premises[k].start_pos + 1
  /\ Len(conclusions) >= 1

\* C3: the resolved offsets never decrease along the token sequence.
C3_OffsetsNonDecreasing ==
  Decoded =>
    LET positions == TokenPositions(text, doc)
    IN  \A i, j \in 1..Len(positions) :
          i < j => /\ positions[i][1] <= positions[j][1]
                   /\ positions[i][2] <= positions[j][2]

\* C4: every component has start_pos <= end_pos.
C4_StartNotAfterEnd ==
  Returned =>
    /\ \A k \in 1..Len(premises) : premises[k].start_pos <= premises[k].end_pos
    /\ \A k \in 1..Len(conclusions) : conclusions[k].start_pos <= conclusions[k].end_pos

NonDecreasingStarts(components) ==
  \A i, j \in 1..Len(components) :
    i < j => components[i].start_pos <= components[j].start_pos

RowsOf(component_type) ==
  SelectSeq(db_components, LAMBDA row : row.component_type = component_type)

RankedInOrder(component_type, components) ==
  /\ Len(RowsOf(component_type)) = Len(components)
  /\ \A k \in 1..Len(components) :
       /\ RowsOf(component_type)[k].sequence_order = k - 1
       /\ RowsOf(component_type)[k].start_pos = components[k].start_pos
       /\ RowsOf(component_type)[k].text = components[k].text

\* C5: within each class the components come in non-decreasing start_pos
\* order, and the stored sequence_order of a component is its 0-based rank
\* in that order.
C5_OrderedAndRanked ==
  /\ Returned => NonDecreasingStarts(premises) /\ NonDecreasingStarts(conclusions)
  /\ (pc = "completed" /\ raised = "None") =>
       /\ NonDecreasingStarts(inline.premises)
       /\ NonDecreasingStarts(inline.conclusions)
       /\ RankedInOrder("PREMISE", inline.premises)
       /\ RankedInOrder("CONCLUSION", inline.conclusions)

NoOverlap(components) ==
  \A i, j \in 1..Len(components) :
    i < j => components[i].end_pos <= components[j].start_pos

\* C6: two components of one class never overlap: the earlier one ends at or
\* before the start of the later one.
C6_NoOverlapWithinClass ==
  Returned => NoOverlap(premises) /\ NoOverlap(conclusions)

\* C7: with labels from {B-P, I-P, B-C, I-C, O}, the tokens of the premises
\* are exactly the tokens labelled B-P/I-P, each once and in order, the
\* tokens of the conclusions are exactly those labelled B-C/I-C, and a token
\* labelled O is in no component.
C7_TokenInAtMostOneComponent ==
  (Decoded /\ \A i \in 1..Len(labels) : labels[i] \in KnownTags) =>
    LET toks == Tokens(doc)
        n    == ZipLen(toks, labels)
    IN  /\ TokensIn(premises) = TokensTagged(toks, labels, n, PremiseTags)
        /\ TokensIn(conclusions) = TokensTagged(toks, labels, n, ConclusionTags)
        /\ Len(TokensIn(premises)) + Len(TokensIn(conclusions))
             = n - Cardinality({i \in 1..n : labels[i] = "O"})

C7_Witness ==
  /\ pc = "extracted"
  /\ Aligned
  /\ \A i \in 1..Len(labels) : labels[i] \in KnownTags
  /\ \E i, j, k \in 1..Len(labels) :
       labels[i] = "I-P" /\ labels[j] \in ConclusionTags /\ labels[k] = "O"
  /\ Len(premises) = 1
  /\ Len(conclusions) = 1

\* C8: when the tagger returns a label sequence whose length differs from
\* the number of tokens, extraction fails with a MisalignedSequence error
\* and emits no component.
C8_MisalignedFailsFast ==
  (Decoded /\ ~Aligned) =>
    /\ raised = "MisalignedSequence"
    /\ premises = <<>>
    /\ conclusions = <<>>

\* The labels with every value outside the tag set replaced by O.
AsOutside(labs) == [i \in 1..Len(labs) |-> IF labs[i] \in KnownTags THEN labs[i] ELSE "O"]

\* C9: a label outside {B-P, I-P, B-C, I-C, O} is handled exactly like O:
\* the result is the one for the labels with O in its place, and no error
\* is raised.
C9_UnknownLabelIsOutside ==
  Decoded =>
    /\ premises = Decode(text, doc, AsOutside(labels)).premises
    /\ conclusions = Decode(text, doc, AsOutside(labels)).conclusions
    /\ raised = "None"

C9_Witness ==
  /\ pc = "extracted"
  /\ Aligned
  /\ \E i \in 2..(Len(labels) - 1) :
       /\ labels[i] = "X"
       /\ labels[i - 1] \in PremiseTags
       /\ labels[i + 1] \in PremiseTags
  /\ Len(premises) = 2

\* C10: an empty token list, or a tagging model that is not ready, gives two
\* empty component lists and no error, and analyze_paragraphs on two empty
\* lists emits only paragraphs without premises and without conclusions.
C10_NotReadyIsEmpty ==
  /\ (pc # "start" /\ (crf_model = "None" \/ nlp_stanza = "None" \/ Tokens(doc) = <<>>)) =>
       /\ premises = <<>>
       /\ conclusions = <<>>
       /\ raised = "None"
  /\ (pc = "analyzed" /\ premises = <<>> /\ conclusions = <<>>) =>
       \A k \in 1..Len(paragraphs) :
         /\ paragraphs[k].premises_count = 0
         /\ paragraphs[k].conclusions_count = 0

C10_Witness ==
  /\ pc = "analyzed"
  /\ crf_model = "loaded"
  /\ nlp_stanza = "None"
  /\ premises = <<>>
  /\ Len(paragraphs) = 2

\* ------------------------------------------- properties of the paragraphs
Analyzed == pc = "analyzed"

\* The number of whitespace-delimited words of a string.
WordsOf(s) ==
  Cardinality({i \in 1..Len(s) : ~IsSpace(s[i]) /\ (i = 1 \/ IsSpace(s[i - 1]))})

Trimmed(s) == s = <<>> \/ (~IsSpace(s[1]) /\ ~IsSpace(s[Len(s)]))

\* Whether the whitespace before offset a (after offset b) of txt reaches
\* an end of the text or holds a paragraph separator.
SeparatedBefore(txt, a) ==
  \/ \A k \in 1..a : IsSpace(txt[k])
  \/ \E k \in 2..a : /\ txt[k - 1] = "\n"
                      /\ txt[k] = "\n"
                      /\ \A m \in k..a : IsSpace(txt[m])

SeparatedAfter(txt, b) ==
  \/ \A k \in (b + 1)..Len(txt) : IsSpace(txt[k])
  \/ \E k \in (b + 1)..(Len(txt) - 1) : /\ txt[k] = "\n"
                                        /\ txt[k + 1] = "\n"
                                        /\ \A m \in (b + 1)..k : IsSpace(txt[m])

\* Whether p is a candidate of txt: a stretch of txt without a paragraph
\* separator in it, with one (or an end of the text) on either side, less
\* its surrounding whitespace.
IsCandidate(txt, p) ==
  /\ \A k \in 1..(Len(p) - 1) : ~(p[k] = "\n" /\ p[k + 1] = "\n")
  /\ \E a \in 0..(Len(txt) - Len(p)) :
       /\ SeparatedBefore(txt, a)
       /\ SeparatedAfter(txt, a + Len(p))
       /\ Slice(txt, a, a + Len(p)) = p

\* C11: every paragraph analyze_paragraphs emits has at least 10 words, its
\* word_count being the number of whitespace-delimited words of its trimmed
\* text; a candidate of fewer than 10 words is never emitted.
C11_ShortParagraphsNeverEmitted ==
  Analyzed =>
    \A k \in 1..Len(paragraphs) :
      /\ paragraphs[k].word_count >= 10
      /\ paragraphs[k].word_count = WordsOf(paragraphs[k].text)
      /\ Trimmed(paragraphs[k].text)
      /\ IsCandidate(text, paragraphs[k].text)

\* A text of two candidates, of nine and of ten words: only one is emitted.
C11_Witness ==
  /\ Analyzed
  /\ text = (<<",">> \o Words(9)) \o <<"\n", "\n">> \o Words(10)
  /\ Len(paragraphs) = 1
  /\ paragraphs[1].word_count = 10

\* Whether a component is counted in a located paragraph: by its midpoint
\* when it has both offsets, by its text otherwise.
HasOffsets(c) == c.start_pos # None /\ c.end_pos # None

Contains(s, sub) ==
  \E i \in 0..(Len(s) - Len(sub)) : Slice(s, i, i + Len(sub)) = sub

CountedIn(c, para_info) ==
  \/ /\ HasOffsets(c)
     /\ 2 * para_info.start <= c.start_pos + c.end_pos
     /\ c.start_pos + c.end_pos < 2 * para_info.end
  \/ /\ ~HasOffsets(c)
     /\ Contains(para_info.text, c.text)

NumberCountedIn(components, para_info) ==
  Cardinality({i \in 1..Len(components) : CountedIn(components[i], para_info)})

\* The located paragraphs of the text: their texts and their ranges.
Located == paragraph_positions(text, split_into_paragraphs(text))

\* C12: premises_count and conclusions_count of an emitted paragraph with
\* range [start, end) are the numbers of premises and of conclusions that
\* have both offsets and start <= (start_pos + end_pos) / 2 < end, or lack
\* an offset and have their text inside the text of the paragraph.
C12_CountsByMidpointOrText ==
  Analyzed =>
    LET located == Located
    IN  /\ Len(paragraphs) = Len(located)
        /\ \A k \in 1..Len(paragraphs) :
             /\ paragraphs[k].text = located[k].text
             /\ paragraphs[k].premises_count = NumberCountedIn(premises, located[k])
             /\ paragraphs[k].conclusions_count = NumberCountedIn(conclusions, located[k])

\* Two paragraphs and two premises: one centred inside the first
\* paragraph, and one without a start offset whose text is in both.
C12_Witness ==
  /\ Analyzed
  /\ text = Words(10) \o <<"\n", "\n">> \o Words(10)
  /\ premises = <<Component("premise", <<"a">>, 1, 1),
                  Component("premise", <<"a", " ", "a">>, None, 3)>>
  /\ Len(paragraphs) = 2
  /\ paragraphs[1].premises_count = 2
  /\ paragraphs[2].premises_count = 1

\* C13: the density of an emitted paragraph is exactly
\* (premises_count + conclusions_count) / word_count, and 0.0 when
\* word_count is 0 (density is held in thousandths).
C13_DensityIsExactRatio ==
  Analyzed =>
    \A k \in 1..Len(paragraphs) :
      IF paragraphs[k].word_count > 0
        THEN paragraphs[k].density * paragraphs[k].word_count =
               1000 * (paragraphs[k].premises_count + paragraphs[k].conclusions_count)
        ELSE paragraphs[k].density = 0

\* ---------------------------------------------- properties of the scores
Scored == pc = "scored"

\* What the scoring functions were given and what they returned: for one
\* direct call, and for every paragraph analyze_paragraphs emitted (whose
\* density is the ratio of its counts to its words, before any rounding).
UnroundedDensity(p) ==
  IF p.word_count > 0
    THEN [num |-> p.premises_count + p.conclusions_count, den |-> p.word_count]
    ELSE [num |-> 0, den |-> 1]

Scorings ==
  IF Scored
    THEN {[premises_count    |-> score_args.premises_count,
           conclusions_count |-> score_args.conclusions_count,
           word_count        |-> score_args.word_count,
           density           |-> score_args.density,
           strength_score    |-> score_result.strength_score,
           strength          |-> score_result.strength,
           recommendation    |-> score_result.recommendation]}
  ELSE IF Analyzed
    THEN {[premises_count    |-> paragraphs[k].premises_count,
           conclusions_count |-> paragraphs[k].conclusions_count,
           word_count        |-> paragraphs[k].word_count,
           density           |-> UnroundedDensity(paragraphs[k]),
           strength_score    |-> paragraphs[k].strength_score,
           strength          |-> paragraphs[k].strength,
           recommendation    |-> paragraphs[k].recommendation] : k \in 1..Len(paragraphs)}
  ELSE {}

\* The sum of the base score, the bonuses and the penalty, before it is
\* clamped.
RawScore(r) ==
  (15 * r.premises_count) + (20 * r.conclusions_count)
    + (IF r.density.num * 100 > 15 * r.density.den THEN 20 ELSE 0)
    + (IF r.premises_count > 0 /\ r.conclusions_count > 0 THEN 10 ELSE 0)
    - (IF r.premises_count + r.conclusions_count = 0 THEN 5 * (r.word_count \div 50) ELSE 0)

\* C14: calculate_paragraph_strength returns clamp(15 * premises_count +
\* 20 * conclusions_count + (20 if density > 0.15) + (10 if both counts are
\* positive) - (5 * floor(word_count / 50) if both counts are 0), 0, 100),
\* and analyze_paragraphs gives it the unrounded density of the paragraph.
C14_ScoreFormula ==
  \A r \in Scorings :
    r.strength_score = Max({0, Min({100, RawScore(r)})})

\* Two premises, one conclusion, density 0.2 and 40 words score 80.
C14_Witness ==
  /\ Scored
  /\ score_args = [premises_count |-> 2, conclusions_count |-> 1, word_count |-> 40,
                   density |-> [num |-> 200, den |-> 1000]]
  /\ score_result.strength_score = 80

\* C15: the strength_score of every emitted paragraph is an integer from 0
\* to 100, whatever the counts, the word count and the density.
C15_ScoreWithinRange ==
  \A r \in Scorings : r.strength_score \in 0..100

\* A paragraph with two premises and three conclusions: 120 before the clamp.
C15_Witness ==
  /\ Analyzed
  /\ \E k \in 1..Len(paragraphs) :
       /\ paragraphs[k].premises_count = 2
       /\ paragraphs[k].conclusions_count = 3
       /\ paragraphs[k].strength_score = 100

\* C16: the category follows from the clamped score alone: "muy fuerte"
\* from 70, "fuerte" from 50, "moderada" from 30, "débil" below 30.
C16_CategoryByScore ==
  \A r \in Scorings :
    /\ r.strength_score >= 70 => r.strength = "muy fuerte"
    /\ (r.strength_score >= 50 /\ r.strength_score < 70) => r.strength = "fuerte"
    /\ (r.strength_score >= 30 /\ r.strength_score < 50) => r.strength = "moderada"
    /\ r.strength_score < 30 => r.strength = "débil"

\* A score of exactly 50 is "fuerte".
C16_Witness ==
  /\ Scored
  /\ score_result.strength_score = 50
  /\ score_result.strength = "fuerte"

\* C17: generate_recommendation returns the message of the first rule that
\* applies, in the order: no premise, no conclusion, density < 0.1,
\* word_count > 150; and None exactly when none applies.
C17_FirstMatchingRecommendation ==
  Scored =>
    LET a     == score_args
        below == a.density.num * 10 < a.density.den
        rec   == score_result.recommendation
    IN  /\ a.premises_count = 0 =>
             rec = "Añade premisas que sustenten tus afirmaciones"
        /\ (a.premises_count > 0 /\ a.conclusions_count = 0) =>
             rec = "Incluye conclusiones que sinteticen las ideas"
        /\ (a.premises_count > 0 /\ a.conclusions_count > 0 /\ below) =>
             rec = "Considera hacer el párrafo más conciso o añadir más argumentación"
        /\ (a.premises_count > 0 /\ a.conclusions_count > 0 /\ ~below /\ a.word_count > 150) =>
             rec = "Párrafo extenso, considera dividirlo para mayor claridad"
        /\ rec = "None" <=>
             (a.premises_count > 0 /\ a.conclusions_count > 0 /\ ~below /\ a.word_count <= 150)

\* A long paragraph of low density: the density rule comes first.
C17_Witness ==
  /\ Scored
  /\ score_args.premises_count > 0
  /\ score_args.conclusions_count > 0
  /\ score_args.density = [num |-> 99, den |-> 1000]
  /\ score_args.word_count = 151
  /\ score_result.recommendation =
       "Considera hacer el párrafo más conciso o añadir más argumentación"

\* C18: a paragraph without premises and without conclusions (whose density
\* is therefore 0) has strength_score 0, category "débil" and the
\* recommendation to add premises, whatever its word_count.
C18_NoComponentsScoresZero ==
  \A r \in Scorings :
    (r.premises_count = 0 /\ r.conclusions_count = 0 /\ r.density.num = 0) =>
      /\ r.strength_score = 0
      /\ r.strength = "débil"
      /\ r.recommendation = "Añade premisas que sustenten tus afirmaciones"

\* No premise, no conclusion and 60 words.
C18_Witness ==
  /\ Scored
  /\ score_args.premises_count = 0
  /\ score_args.conclusions_count = 0
  /\ score_args.word_count = 60
  /\ score_args.density.num = 0
  /\ score_result = [strength_score |-> 0, strength |-> "débil",
                     recommendation |-> "Añade premisas que sustenten tus afirmaciones"]

\* ------------------------------------------- properties of the extraction
\* The tokens of the worked example and their offsets in its sentence.
ScenarioTokens ==
  <<<<"E", "l">>, <<"c", "i", "e", "l", "o">>, <<"e", "s">>, <<"a", "z", "u", "l">>,
    <<"l", "u", "e", "g", "o">>, <<"l", "l", "u", "e", "v", "e">>>>

ScenarioOffsets == <<<<0, 2>>, <<3, 8>>, <<9, 11>>, <<12, 16>>, <<17, 22>>, <<23, 29>>>>

\* The component spanning the tokens first..last of the worked example.
Spanning(type, first, last) ==
  [type      |-> type,
   text      |-> Join(SubSeq(ScenarioTokens, first, last), <<" ">>),
   start_pos |-> ScenarioOffsets[first][1],
   end_pos   |-> ScenarioOffsets[last][2],
   tokens    |-> SubSeq(ScenarioTokens, first, last)]

ScenarioDecoded == Decoded /\ Tokens(doc) = ScenarioTokens /\ labels = ScenarioTags

\* C19, as stated: the tags [O, B-P, I-P, O, B-C, O] over the six tokens
\* give exactly one premise spanning tokens 2-4 and exactly one conclusion
\* spanning token 5, with the offsets of their first and last tokens.
C19_ScenarioAsStated ==
  ScenarioDecoded =>
    /\ premises = <<Spanning("premise", 2, 4)>>
    /\ conclusions = <<Spanning("conclusion", 5, 5)>>

\* C19, amended: the tags [O, B-P, I-P, O, B-C, O] over the six tokens give
\* exactly one premise spanning tokens 2-3 ("cielo es") and exactly one
\* conclusion spanning token 5 ("luego"), with the offsets of their first
\* and last tokens.
C19_ScenarioComponents ==
  ScenarioDecoded =>
    /\ premises = <<Spanning("premise", 2, 3)>>
    /\ conclusions = <<Spanning("conclusion", 5, 5)>>

\* The worked example, its offsets recovered by search.
C19_Witness ==
  /\ ScenarioDecoded
  /\ \A k \in 1..Len(doc) : ~doc[k].has_tokens
  /\ Len(premises) = 1
  /\ premises[1].tokens = <<<<"c", "i", "e", "l", "o">>, <<"e", "s">>>>
  /\ Len(conclusions) = 1

\* The occurrences of a token in the text at or after the cursor.
OccurrencesFrom(txt, tok, cursor) ==
  {p \in cursor..(Len(txt) - Len(tok)) : Slice(txt, p, p + Len(tok)) = tok}

\* The cursor before token i: the end of the token before it, 0 for the
\* first token.
CursorBefore(positions, i) == IF i = 1 THEN 0 ELSE positions[i - 1][2]

\* C20: offset alignment gives every token a non-null (start, end) and
\* raises nothing: a token that carries offsets keeps them; a token without
\* offsets is placed at the first occurrence of its text at or after the
\* cursor, or at the cursor when there is none.
C20_OffsetsAligned ==
  Decoded =>
    LET toks      == Tokens(doc)
        carried   == RawPositions(doc)
        positions == TokenPositions(text, doc)
    IN  /\ raised = "None"
        /\ Len(positions) = Len(toks)
        /\ \A i \in 1..Len(toks) :
             /\ positions[i][1] # None
             /\ positions[i][2] # None
             /\ carried[i] # <<None, None>> => positions[i] = carried[i]
             /\ carried[i] = <<None, None>> =>
                  LET cursor == CursorBefore(positions, i)
                      found  == OccurrencesFrom(text, toks[i], cursor)
                  IN  IF found # {}
                        THEN positions[i] = <<Min(found), Min(found) + Len(toks[i])>>
                        ELSE positions[i] = <<cursor, cursor + Len(toks[i])>>

\* A document in which one token carries offsets, one is found by the
\* search and one is placed at the cursor.
C20_Witness ==
  /\ Decoded
  /\ LET toks      == Tokens(doc)
         carried   == RawPositions(doc)
         positions == TokenPositions(text, doc)
     IN  /\ \E i \in 1..Len(toks) : carried[i] # <<None, None>>
         /\ \E i \in 1..Len(toks) :
              /\ carried[i] = <<None, None>>
              /\ OccurrencesFrom(text, toks[i], CursorBefore(positions, i)) # {}
         /\ \E i \in 1..Len(toks) :
              /\ carried[i] = <<None, None>>
              /\ OccurrencesFrom(text, toks[i], CursorBefore(positions, i)) = {}

\* C21: the cursor of the offset alignment never moves backwards, and a
\* token that the search resolves is never matched to an occurrence that
\* starts before the end of the offsets of an earlier token, whether no
\* token carries offsets or only some do.  (The cursor after a token is the
\* end of its offsets.)
C21_CursorNeverMovesBack ==
  Decoded =>
    LET toks      == Tokens(doc)
        carried   == RawPositions(doc)
        positions == TokenPositions(text, doc)
    IN  (\E i \in 1..Len(toks) : carried[i] = <<None, None>>) =>
          /\ \A i \in 1..Len(toks) : CursorBefore(positions, i) <= positions[i][2]
          /\ \A i \in 1..Len(toks) :
               (/\ carried[i] = <<None, None>>
                /\ OccurrencesFrom(text, toks[i], CursorBefore(positions, i)) # {}) =>
                 \A j \in 1..(i - 1) : positions[j][2] <= positions[i][1]

\* C22: the ranges recovered for the paragraphs have start <= end, follow
\* the order of the text and are pairwise disjoint (each starts at or after
\* the end of the one before it), so two paragraphs with the same text never
\* get the same range.
C22_RangesOrderedAndDisjoint ==
  Analyzed =>
    LET located == Located
    IN  /\ \A k \in 1..Len(located) :
             /\ 0 <= located[k].start
             /\ located[k].start <= located[k].end
             /\ located[k].end <= Len(text)
        /\ \A j, k \in 1..Len(located) :
             j < k =>
               /\ located[j].end <= located[k].start
               /\ located[j].text = located[k].text =>
                    <<located[j].start, located[j].end>> # <<located[k].start, located[k].end>>

\* Two paragraphs with the same text, located one after the other.
C22_Witness ==
  /\ Analyzed
  /\ text = Words(MinParagraphWords) \o <<"\n", "\n">> \o Words(MinParagraphWords)
  /\ LET located == Located
     IN  /\ Len(located) = 2
         /\ located[1].text = located[2].text
         /\ <<located[1].start, located[1].end>> = <<0, ParagraphEnd>>
         /\ <<located[2].start, located[2].end>> = <<ParagraphEnd + 2, 2 * ParagraphEnd + 2>>

\* The sum of the counts that field gives for the paragraphs 1..k.
RECURSIVE SumOfCounts(_, _, _)
SumOfCounts(paras, field, k) ==
  IF k = 0 THEN 0 ELSE SumOfCounts(paras, field, k - 1) + paras[k][field]

\* The located ranges that hold the centre of a component with offsets.
RangesHolding(c, located) ==
  {k \in 1..Len(located) :
     /\ 2 * located[k].start <= c.start_pos + c.end_pos
     /\ c.start_pos + c.end_pos < 2 * located[k].end}

\* Of a list of components that all carry offsets, each has its centre in
\* at most one range, and field counts exactly those whose centre is in one.
CountedAtMostOnce(components, field, located) ==
  (\A i \in 1..Len(components) : HasOffsets(components[i])) =>
    /\ \A i \in 1..Len(components) :
         Cardinality(RangesHolding(components[i], located)) <= 1
    /\ SumOfCounts(paragraphs, field, Len(paragraphs)) =
         Cardinality({i \in 1..Len(components) :
                        RangesHolding(components[i], located) # {}})
    /\ SumOfCounts(paragraphs, field, Len(paragraphs)) <= Len(components)

\* C26: when every premise carries offsets, each premise is counted in at
\* most one emitted paragraph, so the premises_count of all paragraphs sum
\* to at most the number of premises, and a premise whose centre is outside
\* every range is counted in none; the same for the conclusions.
C26_CountedAtMostOnce ==
  Analyzed =>
    LET located == Located
    IN  /\ Len(paragraphs) = Len(located)
        /\ CountedAtMostOnce(premises, "premises_count", located)
        /\ CountedAtMostOnce(conclusions, "conclusions_count", located)

\* Two paragraphs and two premises with offsets: one centred inside the
\* first paragraph, one centred at its end and so outside both.
C26_Witness ==
  /\ Analyzed
  /\ text = Words(MinParagraphWords) \o <<"\n", "\n">> \o Words(MinParagraphWords)
  /\ premises = <<Component("premise", <<"a">>, 1, 1),
                  Component("premise", <<"a">>, ParagraphEnd, ParagraphEnd)>>
  /\ Len(paragraphs) = 2
  /\ paragraphs[1].premises_count = 1
  /\ paragraphs[2].premises_count = 0
  /\ RangesHolding(premises[2], Located) = {}

\* The pieces between the paragraph separators of a text, from an offset
\* on: the range of each, separators being taken from left to right.
RECURSIVE PieceRangesFrom(_, _)
PieceRangesFrom(txt, from) ==
  LET seps == {p \in from..(Len(txt) - 2) : txt[p + 1] = "\n" /\ txt[p + 2] = "\n"}
  IN  IF seps = {} THEN <<<<from, Len(txt)>>>>
      ELSE <<<<from, Min(seps)>>>> \o PieceRangesFrom(txt, Min(seps) + 2)

\* The range of a piece without its leading and trailing whitespace.
TrimmedRange(txt, r) ==
  LET solid == {p \in r[1]..(r[2] - 1) : ~IsSpace(txt[p + 1])}
  IN  IF solid = {} THEN <<r[1], r[1]>> ELSE <<Min(solid), Max(solid) + 1>>

\* The candidate paragraphs of at least MinParagraphWords words, by their
\* true ranges in the text.
CandidateRanges(txt) ==
  LET pieces == PieceRangesFrom(txt, 0)
  IN  SelectSeq([k \in 1..Len(pieces) |-> TrimmedRange(txt, pieces[k])],
                LAMBDA r : WordsOf(Slice(txt, r[1], r[2])) >= MinParagraphWords)

\* C25: every candidate paragraph of at least 10 words is found by the
\* exact search from the cursor, at its true position, so that
\* text[start:end] is the trimmed paragraph; no paragraph needs the second
\* search and none is dropped, and the number of emitted paragraphs is the
\* number of candidates of at least 10 words.
C25_ParagraphsFoundInPlace ==
  Analyzed =>
    LET located    == Located
        candidates == CandidateRanges(text)
        paras      == split_into_paragraphs(text)
    IN  /\ Len(paragraphs) = Len(candidates)
        /\ Len(located) = Len(candidates)
        /\ Len(paras) = Len(candidates)
        /\ \A k \in 1..Len(candidates) :
             /\ <<located[k].start, located[k].end>> = candidates[k]
             /\ Slice(text, located[k].start, located[k].end) = paras[k]
             /\ paragraphs[k].text = paras[k]
             /\ OccurrencesFrom(text, paras[k],
                                IF k = 1 THEN 0 ELSE located[k - 1].end) # {}
             /\ located[k].start =
                  Min(OccurrencesFrom(text, paras[k],
                                      IF k = 1 THEN 0 ELSE located[k - 1].end))

\* Two paragraphs with the same text, the second one after three newlines.
C25_Witness ==
  /\ Analyzed
  /\ text = Words(MinParagraphWords) \o <<"\n", "\n">> \o <<"\n">>
             \o Words(MinParagraphWords)
  /\ Len(paragraphs) = 2
  /\ Located[2].start = Len(text) - ParagraphEnd

\* The categories, from the weakest to the strongest.
CategoryRank(strength) ==
  IF strength = "muy fuerte" THEN 3
  ELSE IF strength = "fuerte" THEN 2
  ELSE IF strength = "moderada" THEN 1
  ELSE 0

\* C27: for a fixed word_count > 0 and density = (premises_count +
\* conclusions_count) / word_count, one more premise or one more conclusion
\* never lowers the strength score nor the category.
C27_MoreComponentsNeverWeaker ==
  [][(pc = "scored" /\ pc' = "scored") =>
       /\ score_args'.word_count = score_args.word_count
       /\ score_args'.premises_count + score_args'.conclusions_count
            = score_args.premises_count + score_args.conclusions_count + 1
       /\ score_result'.strength_score >= score_result.strength_score
       /\ CategoryRank(score_result'.strength) >= CategoryRank(score_result.strength)]_vars

\* A paragraph of ten words that was given a premise and then a
\* conclusion: 15 + 20, 20 for its density and 10 for its balance.
C27_Witness ==
  /\ pc = "scored"
  /\ score_args.word_count = MinParagraphWords
  /\ score_args.premises_count = 1
  /\ score_args.conclusions_count = 1
  /\ score_args.density = Density(2, MinParagraphWords)
  /\ score_result.strength_score = 65
  /\ score_result.strength = "fuerte"

\* A step that is one call of extract_components, and so of initialize_models.
IsCall == model_loads'.calls = model_loads.calls + 1

\* A step leaves the two models as they are and loads neither.
ModelsKept ==
  /\ crf_model' = crf_model
  /\ nlp_stanza' = nlp_stanza
  /\ model_loads'.crf_loads = model_loads.crf_loads
  /\ model_loads'.stanza_loads = model_loads.stanza_loads

\* C23, as first stated: after the first call of initialize_models, no
\* later call loads the CRF model or the tokenizer, nor replaces them.
C23_NothingLoadedAfterFirstCall ==
  [][(IsCall /\ model_loads.calls >= 1) => ModelsKept]_vars

\* C23: the CRF model is loaded at most once, and after the first call of
\* initialize_models that loads it, no later call attempts a load, loads
\* the CRF model or the tokenizer, or replaces them; a call made while
\* crf_model is None attempts the load.
C23_LoadedAtMostOnce ==
  [][/\ model_loads'.crf_loads <= 1
     /\ (IsCall /\ crf_model = "loaded") =>
          (ModelsKept /\ model_loads'.attempts = model_loads.attempts)
     /\ (IsCall /\ crf_model = "None") =>
          model_loads'.attempts = model_loads.attempts + 1]_vars

\* A third call on a service that the first call initialized.
C23_Witness ==
  /\ Decoded
  /\ model_loads = [calls |-> 3, attempts |-> 1, crf_loads |-> 1, stanza_loads |-> 1]

\* C30: once a call has loaded the CRF model and failed to build the
\* tokenizer, no later call retries: crf_model stays set, nlp_stanza stays
\* None and every later call of extract_components returns two empty
\* lists; while crf_model is None, every call attempts the load again.
C30_NoRetryOnceCrfLoaded ==
  [][IsCall =>
       /\ (crf_model = "loaded" /\ nlp_stanza = "None") =>
            /\ crf_model' = "loaded"
            /\ nlp_stanza' = "None"
            /\ model_loads'.attempts = model_loads.attempts
            /\ premises' = <<>>
            /\ conclusions' = <<>>
       /\ crf_model = "None" =>
            model_loads'.attempts = model_loads.attempts + 1]_vars

\* The first call found no model file, the second loaded the CRF model
\* and failed to build the tokenizer, the third did not try again.
C30_Witness ==
  /\ Returned
  /\ crf_model = "loaded"
  /\ nlp_stanza = "None"
  /\ premises = <<>>
  /\ conclusions = <<>>
  /\ model_loads = [calls |-> 3, attempts |-> 2, crf_loads |-> 1, stanza_loads |-> 0]

\* The simple extraction has run: in the service or in one of the endpoints.
SimplyExtracted == pc \in {"simple", "analyze", "recommendations"}

\* The tags of the model that begin with B-Premise or I-Premise, and those
\* that begin with B-Claim or I-Claim.
LongPremiseTags == {BPremise, IPremise, Append(BPremise, "s")}

LongClaimTags == {BClaim, IClaim}

\* The strings of the maximal runs of tokens whose label is in tags.
StringsOfRuns(toks, labs, tags) ==
  LET runs == Runs(labs, Len(labs), tags)
  IN  [k \in 1..Len(runs) |-> Join(SubSeq(toks, runs[k][1], runs[k][2]), <<" ">>)]

\* C28: for every label sequence over B-P, I-P, B-C, I-C and O the simple
\* extraction, in the service and in the /analyze and /recommendations
\* endpoints, returns two empty lists; it yields a component only for a
\* run of labels that start with B-Premise or I-Premise, or with B-Claim
\* or I-Claim.
C28_SimpleLoopIgnoresShortTags ==
  SimplyExtracted =>
    /\ Len(labels) = Len(Tokens(doc))
    /\ (\A i \in 1..Len(labels) : labels[i] \in ShortTags) => simple = NoLists
    /\ simple.premises = StringsOfRuns(Tokens(doc), labels, LongPremiseTags)
    /\ simple.conclusions = StringsOfRuns(Tokens(doc), labels, LongClaimTags)

\* Three tokens tagged B-P, I-P, B-C by a loaded model: nothing is returned.
C28_Witness ==
  /\ pc = "simple"
  /\ crf_model = "loaded"
  /\ nlp_stanza = "loaded"
  /\ labels = <<<<"B", "-", "P">>, <<"I", "-", "P">>, <<"B", "-", "C">>>>
  /\ Len(Tokens(doc)) = 3
  /\ simple = NoLists

\* Both extractions have run with loaded models on the same text, words
\* and labels.
Compared ==
  /\ pc = "compared"
  /\ crf_model = "loaded" /\ nlp_stanza = "loaded"
  /\ router.crf_model = "loaded" /\ router.nlp_stanza = "loaded"

\* C29: when the tokenizer gives no offsets for any token,
\* extract_components and the extraction of /complete-analysis return the
\* same premises and the same conclusions (text, tokens, start_pos,
\* end_pos and order) for the same text, tokens and labels.
C29_SameListsWithoutOffsets ==
  (Compared /\ \A i \in 1..Len(RawPositions(doc)) : RawPositions(doc)[i] = <<None, None>>) =>
    /\ premises = inline.premises
    /\ conclusions = inline.conclusions

\* A text with a repeated word: two premises and a conclusion, the same in
\* both results.
C29_Witness ==
  /\ Compared
  /\ text = <<"a", ",", "a">>
  /\ labels = <<"B-P", "B-C", "B-P">>
  /\ Len(premises) = 2
  /\ premises[2].start_pos = 2
  /\ Len(conclusions) = 1
  /\ premises = inline.premises
  /\ conclusions = inline.conclusions

\* A step that is a request to the users router (the other steps are the
\* days passing).
IsRequest == now' = now

\* The request of the step presents the token, under any scheme.
Presents(token) == http'.request \in {"logout", "me"} /\ http'.token = token

\* Once a user has logged out of a session, the other tokens given to that
\* user, which no successful logout presented, stay in the table and are
\* accepted as long as they have not expired, when the user is one of the
\* given accounts.
OthersStayValid(holders) ==
  \A token \in generated' :
    (\A gone \in logged_out' : gone.token # token) =>
      \A row \in session_tokens :
        (/\ row.token = token
         /\ row.user_id \in holders
         /\ \E gone \in logged_out' : gone.user_id = row.user_id) =>
          /\ row \in session_tokens'
          /\ (Presents(token) /\ http'.scheme = "Bearer" /\ http'.request = "me"
                /\ now <= row.expires_at) => http'.status = 200

\* A successful logout deletes the row of the token it presents and no
\* other row, and a token that a successful logout presented is answered
\* 401 ever after.
LogoutEndsSession ==
  /\ \A gone \in logged_out : Presents(gone.token) => http'.status = 401
  /\ (http'.request = "logout" /\ http'.status = 200) =>
       /\ \E gone \in logged_out' : gone.token = http'.token
       /\ \A row \in session_tokens' : row.token # http'.token
       /\ \A row \in session_tokens : row.token # http'.token => row \in session_tokens'

\* C24, as first stated: after a successful logout that presents token t,
\* every later request that authenticates with t is answered 401, while
\* the other sessions, of the same user too, are left in place and are
\* accepted until they expire.
C24_OthersValidUntilExpiry ==
  [][IsRequest => (LogoutEndsSession /\ OthersStayValid(Usernames))]_vars

\* C24: after a successful logout that presents token t, every later
\* request that authenticates with t is answered 401, while the other
\* sessions, of the same user too, are left in place and are accepted
\* until they expire or the account of their user is deleted.
C24_LogoutEndsOneSession ==
  [][IsRequest => (LogoutEndsSession /\ OthersStayValid(AccountNames(users')))]_vars

\* A user logged in twice and logged out of the first session: the first
\* token is answered 401, the second session is still there.
C24_Witness ==
  /\ logged_out = {[token |-> 1, user_id |-> "ana"]}
  /\ \E row \in session_tokens :
       /\ row.user_id = "ana"
       /\ row.token = 2
       /\ ~is_expired(row, now)
  /\ http = [request |-> "me", scheme |-> "Bearer", token |-> 1, status |-> 401]

====
